---- MODULE Spec2Model ----
(***************************************************************************)
(* The rebalancing policy engine of src/lib/rebalancing.ts: one            *)
(* RebalancingEngine instance running analyzePositions over the positions  *)
(* and pools returned by the fetch adapters of src/lib/api.ts.             *)
(*                                                                         *)
(* Representation of the program's values:                                 *)
(*  - a string is the sequence of its characters, so that template         *)
(*    literals (concatenation) and String.includes (substring search) are  *)
(*    computed as JavaScript computes them;                                *)
(*  - percentages that are whole in the inputs (apy, targetAPY,            *)
(*    maxImpermanentLoss, riskScore) are integers; a product with a        *)
(*    decimal literal (x * 1.1, x * 0.7, x * 0.8, x * 0.1) is compared by  *)
(*    cross-multiplying with 10, which agrees with the double arithmetic   *)
(*    on every value of the input sets below;                              *)
(*  - the estimated impermanent loss and every riskReduction are held in   *)
(*    tenths of a percent, expectedGain and totalPotentialGain in          *)
(*    hundredths of a dollar;                                              *)
(*  - the clock (Date.now()) counts hours, and milliseconds on the         *)
(*    settings page, where only the equality of two readings matters, and  *)
(*    for the rate cache, whose lifetime is given in milliseconds;         *)
(*  - an optional field of a recommendation that the code leaves out is    *)
(*    absent from the record's DOMAIN;                                     *)
(*  - a PoolData | null result is an index into availablePools, 0 = null.  *)
(*                                                                         *)
(* Beside it: the strategies tab of the settings page                      *)
(* (src/unnamed/part_000), which creates, toggles and deletes strategies;  *)
(* the pool-level risk engine of src/lib/api.ts; the position-level risk   *)
(* engine of src/unnamed/part_002; the subgraph requests of the adapters   *)
(* when they fail; executeRebalancing; and the rate cache of               *)
(* src/lib/api.ts. Their units are given where they are defined.           *)
(***************************************************************************)
EXTENDS Integers, Sequences, FiniteSets, TLC

VARIABLES strategy, positions, availablePools, now, pc, idx,
          recommendations, positionsAtRisk, underperformingPositions,
          totalPotentialGain, result

\* One RebalancingEngine instance with two analyzePositions calls in flight.
VARIABLES calls

\* The strategies tab of the settings page.
VARIABLES strategies, newStrategy, isCreatingStrategy, validated

\* The two risk engines.
VARIABLES weights, protocolRiskDatabase, assessed, positionRisk

\* The subgraph requests of src/lib/api.ts that failed, in order.
VARIABLES failed

\* The candidate search of evaluatePosition that ran last, with its arguments.
VARIABLES searched

\* The executeRebalancing call made last: its argument and what it resolved to.
VARIABLES executed

\* The cache of src/lib/api.ts, the setCachedData calls made so far and the
\* getCachedData call made last.
VARIABLES cache, cacheLog, got

engineVars == <<strategy, positions, availablePools, now, pc, idx,
                recommendations, positionsAtRisk, underperformingPositions,
                totalPotentialGain, result>>

settingsVars == <<strategies, newStrategy, isCreatingStrategy, validated>>

riskVars == <<weights, protocolRiskDatabase, assessed, positionRisk>>

cacheVars == <<cache, cacheLog, got>>

moreVars == <<failed, searched, executed, cacheVars>>

vars == <<engineVars, calls, settingsVars, riskVars, moreVars>>

\* ------------------------------------------------------------------ bounds

MaxPositions == 2
MaxPools == 2
MaxSearchPools == 3
MaxCacheSets == 3
MaxCacheClock == 90000

\* ----------------------------------------------------------------- strings

ETH == <<"E", "T", "H">>
WETH == <<"W", "E", "T", "H">>
USDC == <<"U", "S", "D", "C">>

\* `${a}/${b}`
PairLabel(a, b) == a \o <<"/">> \o b

\* String.prototype.includes
Includes(s, sub) ==
  \E i \in 1..(Len(s) - Len(sub) + 1) : SubSeq(s, i, i + Len(sub) - 1) = sub

\* -------------------------------------------------------------- strategies

DEFAULT_STRATEGIES ==
  << [id |-> "conservative", targetAPY |-> 5, maxImpermanentLoss |-> 2,
      riskTolerance |-> "low", rebalanceThreshold |-> 10, enabled |-> FALSE],
     [id |-> "balanced", targetAPY |-> 8, maxImpermanentLoss |-> 5,
      riskTolerance |-> "medium", rebalanceThreshold |-> 15, enabled |-> FALSE],
     [id |-> "aggressive", targetAPY |-> 15, maxImpermanentLoss |-> 10,
      riskTolerance |-> "high", rebalanceThreshold |-> 20, enabled |-> FALSE] >>

createCustomStrategy(targetAPY, maxImpermanentLoss, riskTolerance, clock) ==
  [id |-> "custom-" \o ToString(clock),
   targetAPY |-> targetAPY,
   maxImpermanentLoss |-> maxImpermanentLoss,
   riskTolerance |-> riskTolerance,
   rebalanceThreshold |-> IF riskTolerance = "low" THEN 10
                          ELSE IF riskTolerance = "medium" THEN 15 ELSE 20,
   enabled |-> FALSE]

\* The number NaN (parseFloat of an emptied number input), held as an integer
\* no input reaches; < and > are false whenever an operand is NaN.
NaN == -1000000

\* -Infinity (Math.max of no arguments), held the same way.
NegInfinity == -2000000

lt(a, b) == a # NaN /\ b # NaN /\ a < b

gt(a, b) == a # NaN /\ b # NaN /\ a > b

\* The violation messages, in the order the code pushes them.
validateStrategy(s) ==
  (IF lt(s.targetAPY, 0) \/ gt(s.targetAPY, 100)
     THEN <<"Target APY must be between 0% and 100%">> ELSE <<>>)
  \o (IF lt(s.maxImpermanentLoss, 0) \/ gt(s.maxImpermanentLoss, 50)
     THEN <<"Max impermanent loss must be between 0% and 50%">> ELSE <<>>)
  \o (IF lt(s.rebalanceThreshold, 5) \/ gt(s.rebalanceThreshold, 50)
     THEN <<"Rebalance threshold must be between 5% and 50%">> ELSE <<>>)

\* The strategies an engine is constructed with: the built-in ones and a
\* custom one that passes validation.
Strategies ==
  { DEFAULT_STRATEGIES[i] : i \in 1..Len(DEFAULT_STRATEGIES) }
  \cup { s \in { createCustomStrategy(10, 4, "medium", 0) } :
           validateStrategy(s) = <<>> }

\* ------------------------------------------------------------ adapter data

\* What the subgraph answers for a wallet: token symbols and deposited value.
PositionData ==
  { [token0 |-> ETH, token1 |-> USDC, currentValue |-> 500],
    [token0 |-> USDC, token1 |-> WETH, currentValue |-> 1000] }

\* What the subgraph answers for the pools: the pair labels, and the apy
\* (calculatePoolAPY) and riskScore (calculateRiskScore) of a pool snapshot.
PoolPairs == { PairLabel(ETH, USDC), PairLabel(WETH, USDC) }

PoolMetrics ==
  { [apy |-> 4, riskScore |-> 85], [apy |-> 4, riskScore |-> 50],
    [apy |-> 7, riskScore |-> 40], [apy |-> 10, riskScore |-> 85],
    [apy |-> 10, riskScore |-> 50], [apy |-> 11, riskScore |-> 40] }

PoolData ==
  { [pair |-> p, apy |-> m.apy, riskScore |-> m.riskScore] :
      p \in PoolPairs, m \in PoolMetrics }

SeqsUpTo(S, n) == UNION { [1..k -> S] : k \in 0..n }

\* Date.now() is not tied to the previous reading by the program; between two
\* readings any of these numbers of hours may have passed.
ClockAdvance == { 23, 40 * 24, 80 * 24, 101 * 24 }

\* The wallets analyzePositions is called for.
WalletA == "0xA"
WalletB == "0xB"

\* position.id of the subgraph: the place in the wallet's answer, in a range
\* of ids of its own for each wallet.
SubgraphId(walletAddress, i) == IF walletAddress = WalletA THEN i ELSE 10 + i

\* fetchUserPositions stamping each position with a deposit time thirty days
\* before the fetch, as a subgraph's own record of the deposit would be.
fetchUserPositions_depositedEarlier(walletAddress, data, clock) ==
  [i \in 1..Len(data) |->
     [positionId |-> SubgraphId(walletAddress, i),
      userId |-> walletAddress,
      token0 |-> data[i].token0,
      token1 |-> data[i].token1,
      currentValue |-> data[i].currentValue,
      depositTimestamp |-> clock - 30 * 24]]

\* fetchUserPositions: the mapped positions, each stamped with the fetch time.
fetchUserPositions(walletAddress, data, clock) ==
  [i \in 1..Len(data) |->
     [positionId |-> SubgraphId(walletAddress, i),
      userId |-> walletAddress,
      token0 |-> data[i].token0,
      token1 |-> data[i].token1,
      currentValue |-> data[i].currentValue,
      depositTimestamp |-> clock]]

\* ------------------------------------------------------------------ engine

isRiskTooHigh(riskScore, tolerance) ==
  CASE tolerance = "low" -> riskScore > 40
    [] tolerance = "medium" -> riskScore > 60
    [] tolerance = "high" -> riskScore > 80
    [] OTHER -> FALSE

isRiskAcceptable(riskScore, tolerance) == ~isRiskTooHigh(riskScore, tolerance)

Min(a, b) == IF a < b THEN a ELSE b

\* In tenths of a percent: Math.min(daysSinceDeposit * 0.1, 15).
estimateImpermanentLoss(position, clock) ==
  LET daysSinceDeposit == (clock - position.depositTimestamp) \div 24
  IN  Min(daysSinceDeposit, 150)

estimateTransactionCost(position) == 50

\* In hundredths of a dollar: (currentValue * apyDifference) / 100.
calculatePotentialGain(position, currentPool, newPool) ==
  LET currentValue == position.currentValue
      apyDifference == newPool.apy - currentPool.apy
  IN  currentValue * apyDifference

\* The pool.pair.includes(...) test of both candidate filters.
sameTokens(pool, position) ==
  \/ Includes(pool.pair, position.token0) /\ Includes(pool.pair, position.token1)
  \/ Includes(pool.pair, position.token1) /\ Includes(pool.pair, position.token0)

\* findCurrentPool matching the pair the way the candidate filters do.
findCurrentPool_includes(pools, position) ==
  LET hits == { i \in 1..Len(pools) : sameTokens(pools[i], position) }
  IN  IF hits = {} THEN 0 ELSE CHOOSE i \in hits : \A j \in hits : i <= j

\* Array.prototype.find of analyzePosition: the first index whose pair is
\* token0/token1 or token1/token0, 0 when there is none.
findCurrentPool(pools, position) ==
  LET hits == { i \in 1..Len(pools) :
                  \/ pools[i].pair = PairLabel(position.token0, position.token1)
                  \/ pools[i].pair = PairLabel(position.token1, position.token0) }
  IN  IF hits = {} THEN 0 ELSE CHOOSE i \in hits : \A j \in hits : i <= j

\* candidatePools.reduce(...) with `>=` for `>`: a later candidate of equal
\* score replaces the running best.
RECURSIVE reduceBest_lastWins(_, _, _, _, _)
reduceBest_lastWins(pools, cands, k, best, penalty) ==
  IF k > Len(cands) THEN best
  ELSE LET current == cands[k]
           currentScore == 10 * pools[current].apy - pools[current].riskScore * penalty
           bestScore == 10 * pools[best].apy - pools[best].riskScore * penalty
       IN  IF best = 0 THEN reduceBest_lastWins(pools, cands, k + 1, current, penalty)
           ELSE reduceBest_lastWins(pools, cands, k + 1,
                                    IF currentScore >= bestScore THEN current ELSE best,
                                    penalty)

\* candidatePools.reduce(...): the running best over the candidate indices
\* from k on; score is apy - riskScore * penalty/10, compared times 10.
RECURSIVE reduceBest(_, _, _, _, _)
reduceBest(pools, cands, k, best, penalty) ==
  IF k > Len(cands) THEN best
  ELSE LET current == cands[k]
           currentScore == 10 * pools[current].apy - pools[current].riskScore * penalty
           bestScore == 10 * pools[best].apy - pools[best].riskScore * penalty
       IN  IF best = 0 THEN reduceBest(pools, cands, k + 1, current, penalty)
           ELSE reduceBest(pools, cands, k + 1,
                           IF currentScore > bestScore THEN current ELSE best,
                           penalty)

\* Array.prototype.filter keeps the list's order: the kept indices, increasing.
RECURSIVE filterIdx(_)
filterIdx(kept) ==
  IF kept = {} THEN <<>>
  ELSE LET first == CHOOSE i \in kept : \A j \in kept : i <= j
       IN  <<first>> \o filterIdx(kept \ {first})

findBetterPool(strat, pools, position, currentPool) ==
  LET keep(i) ==
        /\ sameTokens(pools[i], position)
        /\ 10 * pools[i].apy > 11 * currentPool.apy
        /\ isRiskAcceptable(pools[i].riskScore, strat.riskTolerance)
      candidatePools == filterIdx({ i \in 1..Len(pools) : keep(i) })
  IN  reduceBest(pools, candidatePools, 1, 0, 1)

findSaferPool(pools, position, currentPool) ==
  LET keep(i) ==
        /\ sameTokens(pools[i], position)
        /\ 10 * pools[i].riskScore < 8 * currentPool.riskScore
        /\ 10 * pools[i].apy > 7 * currentPool.apy
      candidatePools == filterIdx({ i \in 1..Len(pools) : keep(i) })
  IN  reduceBest(pools, candidatePools, 1, 0, 10)

\* The five return statements of evaluatePosition.
exitRecommendation(position, impermanentLoss) ==
  [positionId |-> position.positionId,
   action |-> "exit",
   reason |-> "exceeds maximum tolerance",
   urgency |-> "high",
   riskReduction |-> impermanentLoss,
   estimatedCost |-> estimateTransactionCost(position)]

rebalanceUrgency_atLeast(potentialGain, rebalanceThreshold) ==
  IF potentialGain >= 100 * rebalanceThreshold THEN "high" ELSE "medium"

\* potentialGain > rebalanceThreshold ? 'high' : 'medium'
rebalanceUrgency(potentialGain, rebalanceThreshold) ==
  IF potentialGain > 100 * rebalanceThreshold THEN "high" ELSE "medium"

rebalanceRecommendation(strat, position, currentPool, betterPool) ==
  LET potentialGain == calculatePotentialGain(position, currentPool, betterPool)
  IN  [positionId |-> position.positionId,
       action |-> "rebalance",
       reason |-> "below target",
       urgency |-> rebalanceUrgency(potentialGain, strat.rebalanceThreshold),
       expectedGain |-> potentialGain,
       newPool |-> betterPool,
       estimatedCost |-> estimateTransactionCost(position)]

riskAdjustRecommendation(position, riskScore, saferPool) ==
  [positionId |-> position.positionId,
   action |-> "adjust",
   reason |-> "exceeds tolerance",
   urgency |-> "medium",
   riskReduction |-> 10 * (riskScore - saferPool.riskScore),
   newPool |-> saferPool,
   estimatedCost |-> estimateTransactionCost(position)]

lossAdjustRecommendation_wholeLoss(strat, position, impermanentLoss) ==
  [positionId |-> position.positionId,
   action |-> "adjust",
   reason |-> "approaching maximum tolerance",
   urgency |-> "medium",
   riskReduction |-> impermanentLoss,
   estimatedCost |-> estimateTransactionCost(position)]

lossAdjustRecommendation(strat, position, impermanentLoss) ==
  [positionId |-> position.positionId,
   action |-> "adjust",
   reason |-> "approaching maximum tolerance",
   urgency |-> "medium",
   riskReduction |-> impermanentLoss - 10 * strat.maxImpermanentLoss,
   estimatedCost |-> estimateTransactionCost(position)]

holdRecommendation(position) ==
  [positionId |-> position.positionId,
   action |-> "hold",
   reason |-> "within strategy parameters",
   urgency |-> "low"]

\* currentAPY < targetAPY * 0.7
isUnderperforming_orEqual(currentAPY, targetAPY) == 10 * currentAPY <= targetAPY * 7

isUnderperforming(currentAPY, targetAPY) == 10 * currentAPY < targetAPY * 7

\* evaluatePosition with the underperformance check moved above the exit check.
evaluatePosition_underperformanceFirst(strat, pools, position, currentPool, currentAPY, impermanentLoss, riskScore) ==
  LET betterPool == findBetterPool(strat, pools, position, currentPool)
      saferPool == findSaferPool(pools, position, currentPool)
  IN
  IF isUnderperforming(currentAPY, strat.targetAPY) /\ betterPool # 0 THEN
    rebalanceRecommendation(strat, position, currentPool, pools[betterPool])
  ELSE IF impermanentLoss > 10 * strat.maxImpermanentLoss * 2 THEN
    exitRecommendation(position, impermanentLoss)
  ELSE IF isRiskTooHigh(riskScore, strat.riskTolerance) /\ saferPool # 0 THEN
    riskAdjustRecommendation(position, riskScore, pools[saferPool])
  ELSE IF impermanentLoss > 10 * strat.maxImpermanentLoss THEN
    lossAdjustRecommendation(strat, position, impermanentLoss)
  ELSE
    holdRecommendation(position)

\* evaluatePosition with the risk-tolerance check moved above the
\* underperformance check.
evaluatePosition_riskFirst(strat, pools, position, currentPool, currentAPY, impermanentLoss, riskScore) ==
  LET betterPool == findBetterPool(strat, pools, position, currentPool)
      saferPool == findSaferPool(pools, position, currentPool)
  IN
  IF impermanentLoss > 10 * strat.maxImpermanentLoss * 2 THEN
    exitRecommendation(position, impermanentLoss)
  ELSE IF isRiskTooHigh(riskScore, strat.riskTolerance) /\ saferPool # 0 THEN
    riskAdjustRecommendation(position, riskScore, pools[saferPool])
  ELSE IF isUnderperforming(currentAPY, strat.targetAPY) /\ betterPool # 0 THEN
    rebalanceRecommendation(strat, position, currentPool, pools[betterPool])
  ELSE IF impermanentLoss > 10 * strat.maxImpermanentLoss THEN
    lossAdjustRecommendation(strat, position, impermanentLoss)
  ELSE
    holdRecommendation(position)

evaluatePosition(strat, pools, position, currentPool, currentAPY, impermanentLoss, riskScore) ==
  LET betterPool == findBetterPool(strat, pools, position, currentPool)
      saferPool == findSaferPool(pools, position, currentPool)
  IN
  IF impermanentLoss > 10 * strat.maxImpermanentLoss * 2 THEN
    exitRecommendation(position, impermanentLoss)
  ELSE IF isUnderperforming(currentAPY, strat.targetAPY) /\ betterPool # 0 THEN
    rebalanceRecommendation(strat, position, currentPool, pools[betterPool])
  ELSE IF isRiskTooHigh(riskScore, strat.riskTolerance) /\ saferPool # 0 THEN
    riskAdjustRecommendation(position, riskScore, pools[saferPool])
  ELSE IF impermanentLoss > 10 * strat.maxImpermanentLoss THEN
    lossAdjustRecommendation(strat, position, impermanentLoss)
  ELSE
    holdRecommendation(position)

\* analyzePosition: <<>> for null, <<recommendation>> otherwise.
analyzePosition(strat, pools, position, clock) ==
  LET c == findCurrentPool(pools, position)
  IN  IF c = 0 THEN <<>>
      ELSE LET currentPool == pools[c]
               currentAPY == currentPool.apy
               estimatedIL == estimateImpermanentLoss(position, clock)
               riskScore == currentPool.riskScore
           IN  << evaluatePosition(strat, pools, position, currentPool,
                                   currentAPY, estimatedIL, riskScore) >>

pushRecommendation_unshift(recs, analysis) == <<analysis>> \o recs

\* recommendations.push(analysis)
pushRecommendation(recs, analysis) == Append(recs, analysis)

\* ------------------------------------------------- calls on one instance

CallIds == {1, 2}

\* The walletAddress argument of each call.
walletOf(c) == IF c = 1 THEN WalletA ELSE WalletB

\* The locals of one analyzePositions call: where it stands (pc), the array
\* its for...of iterates and the index of the iteration under way, the
\* analysis it awaits, its counters and what it returned. fetchedPositions
\* and fetchedPools are the values its own two awaits produced.
notCalled ==
  [pc |-> "none", iter |-> <<>>, idx |-> 0, pending |-> <<>>,
   recommendations |-> <<>>, positionsAtRisk |-> 0,
   underperformingPositions |-> 0, totalPotentialGain |-> 0,
   result |-> <<>>, fetchedPositions |-> <<>>, fetchedPools |-> <<>>]

InitCalls == calls = [c \in CallIds |-> notCalled]

\* ----------------------------------------------------------- settings page

MaxStrategies == 5
MaxTick == 2

\* What the three inputs of the create form can be set to: parseFloat of the
\* typed text for the two number inputs, an option of the select.
TargetAPYInputs == { NaN, 8, 150 }
MaxImpermanentLossInputs == { 5, 60 }
RiskToleranceOptions == { "medium", "high" }

\* Date.now() in milliseconds: between two readings of the page no time or
\* one millisecond has passed.
TickAdvance == { 0, 1 }

\* useState({ name: '', targetAPY: 8, maxImpermanentLoss: 5, ... })
blankStrategyForm ==
  [targetAPY |-> 8, maxImpermanentLoss |-> 5, riskTolerance |-> "medium"]

\* strategies.map(s => s.id === strategyId ? { ...s, enabled: !s.enabled }
\*                                          : { ...s, enabled: false })
toggleStrategy(list, strategyId) ==
  [i \in 1..Len(list) |->
     IF list[i].id = strategyId
     THEN [list[i] EXCEPT !.enabled = ~list[i].enabled]
     ELSE [list[i] EXCEPT !.enabled = FALSE]]

\* strategies.filter(s => s.id !== strategyId)
deleteStrategy(list, strategyId) ==
  LET kept == filterIdx({ i \in 1..Len(list) : list[i].id # strategyId })
  IN  [k \in 1..Len(kept) |-> list[kept[k]]]

\* strategy.id.startsWith('custom-'): the ids createCustomStrategy makes.
isCustomId(id) == \E t \in 0..(MaxTick + 2) : id = "custom-" \o ToString(t)

InitSettings ==
  /\ strategies = DEFAULT_STRATEGIES
  /\ newStrategy = blankStrategyForm
  /\ isCreatingStrategy = FALSE
  /\ validated = <<>>

\* ------------------------------------------- pool-level risk engine (api.ts)

\* Representation: a score is held in thousandths of a point, a weight in
\* hundredths, tvl and volume24h in hundreds of dollars, a tvlHistory entry in
\* millions of dollars. A quotient the code leaves fractional is cut to the
\* thousandth below it.

MaxAssessments == 3

WBTC == <<"W", "B", "T", "C">>
USDT == <<"U", "S", "D", "T">>
DAI == <<"D", "A", "I">>

UpperCaseLetters ==
  << "A", "B", "C", "D", "E", "F", "G", "H", "I", "J", "K", "L", "M",
     "N", "O", "P", "Q", "R", "S", "T", "U", "V", "W", "X", "Y", "Z" >>
LowerCaseLetters ==
  << "a", "b", "c", "d", "e", "f", "g", "h", "i", "j", "k", "l", "m",
     "n", "o", "p", "q", "r", "s", "t", "u", "v", "w", "x", "y", "z" >>

\* String.prototype.toLowerCase
toLowerCase(s) ==
  [i \in 1..Len(s) |->
     IF \E k \in 1..26 : UpperCaseLetters[k] = s[i]
     THEN LowerCaseLetters[CHOOSE k \in 1..26 : UpperCaseLetters[k] = s[i]]
     ELSE s[i]]

Max(a, b) == IF a > b THEN a ELSE b

\* Math.round of a non-negative number given in units of 1/unit.
round(x, unit) == (2 * x + unit) \div (2 * unit)

\* config.risk
liquidityThreshold == 1000
protocolRiskWeights ==
  [smartContract |-> 30, liquidity |-> 25, impermanentLoss |-> 25, protocol |-> 20]

\* const protocolRiskDatabase, as the module initialises it.
initialProtocolRiskDatabase ==
  [p \in {"Uniswap V3", "Aerodrome", "BaseSwap", "SushiSwap"} |->
     CASE p = "Uniswap V3" ->
            [auditScore |-> 95, tvlHistory |-> <<1000, 1100, 1200>>,
             exploitHistory |-> 0, timeInMarket |-> 1200]
       [] p = "Aerodrome" ->
            [auditScore |-> 85, tvlHistory |-> <<100, 150, 200>>,
             exploitHistory |-> 0, timeInMarket |-> 365]
       [] p = "BaseSwap" ->
            [auditScore |-> 70, tvlHistory |-> <<50, 45, 40>>,
             exploitHistory |-> 1, timeInMarket |-> 180]
       [] p = "SushiSwap" ->
            [auditScore |-> 80, tvlHistory |-> <<500, 480, 520>>,
             exploitHistory |-> 2, timeInMarket |-> 1400]]

\* The property names an object literal inherits from Object.prototype.
ObjectPrototypeKeys ==
  { "constructor", "hasOwnProperty", "isPrototypeOf", "propertyIsEnumerable",
    "toLocaleString", "toString", "valueOf", "__proto__" }

\* protocolRiskDatabase[protocol]: the entry of the table, else the function or
\* object inherited under that name (truthy, with none of the entry's fields),
\* else undefined.
lookup(db, protocol) ==
  IF protocol \in DOMAIN db THEN "own"
  ELSE IF protocol \in ObjectPrototypeKeys THEN "inherited"
  ELSE "undefined"

\* What a call that ends in a thrown TypeError yields.
TypeError == [threw |-> "TypeError"]

\* On an inherited value every field read is undefined and the sum is NaN.
calculateSmartContractRisk(db, protocol) ==
  IF lookup(db, protocol) = "undefined" THEN 70000
  ELSE IF lookup(db, protocol) = "inherited" THEN NaN
  ELSE LET protocolData == db[protocol]
           auditRisk == Max(0, 100 - protocolData.auditScore) * 400
           exploitRisk == Min(30, protocolData.exploitHistory * 15) * 1000
           timeRisk == Max(0, 30000 - (protocolData.timeInMarket * 10000) \div 365)
       IN  Min(100000, auditRisk + exploitRisk + timeRisk)

\* pool.volume24h / pool.tvl is Infinity or NaN when tvl is 0, and then not
\* below 0.1.
calculateLiquidityRisk(pool) ==
  LET tvlRisk == IF pool.tvl < liquidityThreshold
                 THEN ((liquidityThreshold - pool.tvl) * 50000) \div liquidityThreshold
                 ELSE 0
      lowTurnover == pool.tvl # 0 /\ 10 * pool.volume24h < pool.tvl
      volumeRisk == IF lowTurnover
                    THEN 30000 - (300000 * pool.volume24h) \div pool.tvl
                    ELSE 0
  IN  Min(100000, tvlRisk + volumeRisk + 10000)

calculateImpermanentLossRisk(pool) ==
  LET pair == toLowerCase(pool.pair)
      has(t) == Includes(pair, t)
      base == IF has(<<"e", "t", "h">>) /\ has(<<"u", "s", "d", "c">>) THEN 35
              ELSE IF has(<<"u", "s", "d", "c">>) /\ has(<<"u", "s", "d", "t">>) THEN 5
              ELSE IF has(<<"b", "t", "c">>) /\ has(<<"e", "t", "h">>) THEN 60
              ELSE 70
      risk == IF pool.apy > 20 THEN base + 15
              ELSE IF pool.apy > 10 THEN base + 5 ELSE base
  IN  Min(100000, risk * 1000)

\* On an inherited value tvlHistory is undefined and tvlHistory.length throws.
calculateProtocolRisk(db, protocol) ==
  IF lookup(db, protocol) = "undefined" THEN 60000
  ELSE IF lookup(db, protocol) = "inherited" THEN TypeError
  ELSE LET tvlHistory == db[protocol].tvlHistory
           n == Len(tvlHistory)
           trendRisk ==
             IF n >= 2
             THEN IF 10 * tvlHistory[n] < 9 * tvlHistory[n - 1] THEN 30
                  ELSE IF 100 * tvlHistory[n] < 95 * tvlHistory[n - 1] THEN 15
                  ELSE 0
             ELSE 0
       IN  Min(100000, (trendRisk + 15 + 10) * 1000)

generateRecommendations(assessment, pool) ==
  LET messages ==
        (IF assessment.overall > 70
           THEN <<"High risk position - consider reducing exposure">> ELSE <<>>)
        \o (IF assessment.liquidity > 60
           THEN <<"Low liquidity detected - monitor for slippage risks">> ELSE <<>>)
        \o (IF assessment.impermanentLoss > 50
           THEN <<"High impermanent loss risk - consider stable pairs">> ELSE <<>>)
        \o (IF assessment.smartContract > 60
           THEN <<"Smart contract risks detected - verify protocol audits">> ELSE <<>>)
        \o (IF assessment.protocol > 50
           THEN <<"Protocol risks present - diversify across multiple protocols">>
           ELSE <<>>)
        \o (IF pool.apy > 15
           THEN <<"High APY may indicate elevated risks - proceed with caution">>
           ELSE <<>>)
  IN  IF Len(messages) = 0
      THEN <<"Risk levels appear manageable for this position">>
      ELSE messages

\* The weighted sum of assessPool, in units of 1/100000.
weightedOverall(w, factors) ==
  factors.smartContract * w.smartContract
  + factors.liquidity * w.liquidity
  + factors.impermanentLoss * w.impermanentLoss
  + factors.protocol * w.protocol

\* The throw of calculateProtocolRisk leaves assessPool.
assessPool(w, db, pool) ==
  IF lookup(db, pool.protocol) = "inherited" THEN TypeError ELSE
  LET factors ==
        [smartContract |-> calculateSmartContractRisk(db, pool.protocol),
         liquidity |-> calculateLiquidityRisk(pool),
         impermanentLoss |-> calculateImpermanentLossRisk(pool),
         protocol |-> calculateProtocolRisk(db, pool.protocol)]
      overall == weightedOverall(w, factors)
      assessment ==
        [overall |-> round(overall, 100000),
         impermanentLoss |-> round(factors.impermanentLoss, 1000),
         smartContract |-> round(factors.smartContract, 1000),
         liquidity |-> round(factors.liquidity, 1000),
         protocol |-> round(factors.protocol, 1000),
         factors |-> factors,
         recommendations |-> <<>>]
  IN  [assessment EXCEPT !.recommendations = generateRecommendations(assessment, pool)]

RECURSIVE sum(_)
sum(numbers) ==
  IF numbers = <<>> THEN 0 ELSE Head(numbers) + sum(Tail(numbers))

\* assessPortfolio of api.ts. With a total TVL of 0 every weight is 0 / 0, so
\* every weighted factor, and every number rounded from one, is NaN.
assessPoolPortfolio(w, db, pools) ==
  IF Len(pools) = 0
  THEN [overall |-> 0, impermanentLoss |-> 0, smartContract |-> 0,
        liquidity |-> 0, protocol |-> 0,
        factors |-> [smartContract |-> 0, liquidity |-> 0,
                     impermanentLoss |-> 0, protocol |-> 0],
        recommendations |-> <<"No positions to assess">>]
  ELSE IF \E i \in 1..Len(pools) : assessPool(w, db, pools[i]) = TypeError
  THEN TypeError
  ELSE
    LET totalTvl == sum([i \in 1..Len(pools) |-> pools[i].tvl])
        poolAssessment == [i \in 1..Len(pools) |-> assessPool(w, db, pools[i])]
        weighted(score) ==
          IF totalTvl = 0 THEN NaN
          ELSE (sum([i \in 1..Len(pools) |-> score[i] * pools[i].tvl]) * 1000)
                 \div totalTvl
        weightedFactors ==
          [smartContract |->
             weighted([i \in 1..Len(pools) |-> poolAssessment[i].smartContract]),
           liquidity |->
             weighted([i \in 1..Len(pools) |-> poolAssessment[i].liquidity]),
           impermanentLoss |->
             weighted([i \in 1..Len(pools) |-> poolAssessment[i].impermanentLoss]),
           protocol |->
             weighted([i \in 1..Len(pools) |-> poolAssessment[i].protocol])]
        rounded(x, unit) == IF totalTvl = 0 THEN NaN ELSE round(x, unit)
        protocolCount == Cardinality({ pools[i].protocol : i \in 1..Len(pools) })
        highRiskPools == { i \in 1..Len(pools) : poolAssessment[i].overall > 70 }
        portfolioRecommendations ==
          (IF Len(pools) < 3
             THEN <<"Consider diversifying across more protocols">> ELSE <<>>)
          \o (IF protocolCount = 1
             THEN <<"All positions on single protocol - consider diversification">>
             ELSE <<>>)
          \o (IF Cardinality(highRiskPools) > 0
             THEN << ToString(Cardinality(highRiskPools))
                       \o " high-risk position(s) detected" >>
             ELSE <<>>)
    IN  [overall |-> rounded(weightedOverall(w, weightedFactors), 100000),
         impermanentLoss |-> rounded(weightedFactors.impermanentLoss, 1000),
         smartContract |-> rounded(weightedFactors.smartContract, 1000),
         liquidity |-> rounded(weightedFactors.liquidity, 1000),
         protocol |-> rounded(weightedFactors.protocol, 1000),
         factors |-> weightedFactors,
         recommendations |-> portfolioRecommendations]

\* -------------------------------------- position-level risk engine (part_002)

\* Same units as the pool-level engine; fees24h is in hundreds of dollars and
\* currentValue of the assessed positions in thousands of dollars. The overall
\* score, which the code does not round, is held in units of 1/100000.

RISK_WEIGHTS ==
  [impermanent_loss |-> 25, smart_contract |-> 20, liquidity |-> 20,
   protocol |-> 15, market |-> 15, concentration |-> 5]

\* table[key] || fallback over a table given as a set of <<key, value>>, for
\* a key that is no property name of Object.prototype.
lookupOr(table, key, fallback) ==
  IF \E e \in table : e[1] = key
  THEN (CHOOSE e \in table : e[1] = key)[2]
  ELSE fallback

PROTOCOL_RISK_SCORES ==
  { <<"Uniswap V3", 15>>, <<"Aerodrome", 25>>, <<"BaseSwap", 45>>,
    <<"SushiSwap", 20>>, <<"Curve", 18>>, <<"Balancer", 22>> }

\* Math.sqrt, cut to the hundredth below it and given in thousandths.
sqrt(x) ==
  10 * (CHOOSE r \in 0..10000 : r * r <= 10000 * x /\ 10000 * x < (r + 1) * (r + 1))

estimateTokenVolatility(token0, token1) ==
  LET volatilities == { <<WETH, 60>>, <<USDC, 5>>, <<DAI, 8>>,
                        <<WBTC, 65>>, <<USDT, 6>> }
      vol0 == lookupOr(volatilities, token0, 50)
      vol1 == lookupOr(volatilities, token1, 50)
  IN  sqrt(vol0 * vol0 + vol1 * vol1)

estimateTokenCorrelation(token0, token1) ==
  IF (token0 = USDC /\ token1 = DAI) \/ (token0 = DAI /\ token1 = USDC) THEN 10
  ELSE IF (token0 = WETH /\ token1 = WBTC) \/ (token0 = WBTC /\ token1 = WETH) THEN 30
  ELSE 70

\* Math.min(50, daysSinceDeposit * 0.5), the days not rounded.
calculateTimeRisk(depositTimestamp, clock) ==
  Min(50000, ((clock - depositTimestamp) * 1000) \div 48)

\* maturityScores[protocol] || 60: under a name that an object literal inherits
\* the lookup gives a function or an object, which is truthy and NaN as a number.
getProtocolMaturityScore(protocol) ==
  IF protocol \in ObjectPrototypeKeys THEN NaN ELSE
  lookupOr({ <<"Uniswap V3", 95>>, <<"SushiSwap", 85>>, <<"Curve", 90>>,
             <<"Balancer", 80>>, <<"Aerodrome", 70>>, <<"BaseSwap", 50>> },
           protocol, 60)

getAuditScore(protocol) ==
  IF protocol \in ObjectPrototypeKeys THEN NaN ELSE
  lookupOr({ <<"Uniswap V3", 95>>, <<"SushiSwap", 90>>, <<"Curve", 92>>,
             <<"Balancer", 88>>, <<"Aerodrome", 75>>, <<"BaseSwap", 60>> },
           protocol, 70)

estimateMarketVolatility == 45
estimateMarketCorrelation(token0, token1) == 60
estimateMacroRisk == 35

\* score > high ? 'high' : score > medium ? 'medium' : 'low', false for NaN
level(score, high, medium) ==
  IF gt(score, high) THEN "high" ELSE IF gt(score, medium) THEN "medium" ELSE "low"

assessImpermanentLossRisk(position, poolData, clock) ==
  LET volatilityScore == estimateTokenVolatility(position.token0, position.token1)
      correlationScore == estimateTokenCorrelation(position.token0, position.token1)
      timeScore == calculateTimeRisk(position.depositTimestamp, clock)
      ilScore == Min(100000, (volatilityScore * 5 + correlationScore * 3000
                              + timeScore * 2) \div 10)
  IN  [category |-> "impermanent_loss",
       name |-> "Impermanent Loss Risk",
       score |-> ilScore,
       weight |-> RISK_WEIGHTS.impermanent_loss,
       impact |-> level(ilScore, 60000, 30000),
       likelihood |-> level(volatilityScore, 70000, 40000),
       mitigation |-> "Consider correlated pairs or shorter time horizons to reduce IL risk"]

assessSmartContractRisk(position, poolData) ==
  LET protocolMaturity == getProtocolMaturityScore(poolData.protocol)
      auditScore == getAuditScore(poolData.protocol)
      tvlScore == Min(100000, poolData.tvl \div 10)
      scScore ==
        IF protocolMaturity = NaN \/ auditScore = NaN THEN NaN
        ELSE 100000 - Min(100000, (protocolMaturity * 4000 + auditScore * 4000
                                   + tvlScore * 2) \div 10)
  IN  [category |-> "smart_contract",
       name |-> "Smart Contract Risk",
       score |-> scScore,
       weight |-> RISK_WEIGHTS.smart_contract,
       impact |-> level(scScore, 70000, 40000),
       likelihood |-> IF gt(scScore, 60000) THEN "medium" ELSE "low",
       mitigation |-> "Diversify across multiple protocols and prefer audited, battle-tested protocols"]

\* Math.min(100, (amount / tvl) * factor): with tvl = 0 the quotient is
\* Infinity for a positive amount (the minimum is 100) and NaN for amount 0.
ratioScore(amount, tvl, factor) ==
  IF tvl = 0 THEN (IF amount = 0 THEN NaN ELSE 100000)
  ELSE Min(100000, (amount * factor * 1000) \div tvl)

assessLiquidityRisk(position, poolData) ==
  LET depthScore == Min(100000, poolData.tvl)
      volumeScore == ratioScore(poolData.volume24h, poolData.tvl, 100)
      utilizationScore == ratioScore(poolData.fees24h, poolData.tvl, 36500)
      liquidityScore ==
        IF volumeScore = NaN \/ utilizationScore = NaN THEN NaN
        ELSE 100000 - Min(100000, (depthScore * 5 + volumeScore * 3
                                   + utilizationScore * 2) \div 10)
  IN  [category |-> "liquidity",
       name |-> "Liquidity Risk",
       score |-> liquidityScore,
       weight |-> RISK_WEIGHTS.liquidity,
       impact |-> level(liquidityScore, 60000, 30000),
       likelihood |-> IF poolData.tvl < 10000 THEN "high"
                      ELSE IF poolData.tvl < 100000 THEN "medium" ELSE "low",
       mitigation |-> "Prefer high-TVL pools with consistent trading volume"]

\* The function or object that PROTOCOL_RISK_SCORES[protocol] gives under an
\* inherited name: kept by `|| 50`, greater than no number, NaN in arithmetic.
InheritedProperty == -3000000

assessProtocolRisk(position, poolData) ==
  LET protocolScore ==
        IF poolData.protocol \in ObjectPrototypeKeys THEN InheritedProperty
        ELSE 1000 * lookupOr(PROTOCOL_RISK_SCORES, poolData.protocol, 50)
  IN  [category |-> "protocol",
       name |-> "Protocol Risk",
       score |-> protocolScore,
       weight |-> RISK_WEIGHTS.protocol,
       impact |-> level(protocolScore, 60000, 30000),
       likelihood |-> "medium",
       mitigation |-> "Monitor protocol governance and consider diversifying across protocols"]

assessMarketRisk(position, poolData) ==
  LET marketVolatility == estimateMarketVolatility
      correlationRisk == estimateMarketCorrelation(position.token0, position.token1)
      macroRisk == estimateMacroRisk
      marketScore == Min(100000, marketVolatility * 400 + correlationRisk * 300
                                 + macroRisk * 300)
  IN  [category |-> "market",
       name |-> "Market Risk",
       score |-> marketScore,
       weight |-> RISK_WEIGHTS.market,
       impact |-> level(marketScore, 70000, 40000),
       likelihood |-> "medium",
       mitigation |-> "Consider market timing and maintain appropriate position sizing"]

\* The factors pushed, in order.
calculateRiskFactors(position, poolData, clock) ==
  << assessImpermanentLossRisk(position, poolData, clock),
     assessSmartContractRisk(position, poolData),
     assessLiquidityRisk(position, poolData),
     assessProtocolRisk(position, poolData),
     assessMarketRisk(position, poolData) >>

\* The reduce without the weights: total + factor.score.
calculateOverallRisk_unweighted(factors) ==
  IF \E i \in 1..Len(factors) : factors[i].score \in {NaN, InheritedProperty} THEN NaN
  ELSE sum([i \in 1..Len(factors) |-> factors[i].score * 100])

\* factors.reduce((total, factor) => total + factor.score * factor.weight, 0)
calculateOverallRisk(factors) ==
  IF \E i \in 1..Len(factors) : factors[i].score \in {NaN, InheritedProperty} THEN NaN
  ELSE sum([i \in 1..Len(factors) |-> factors[i].score * factors[i].weight])

determineSeverity(overallRisk) ==
  IF overallRisk = NaN THEN "low"
  ELSE IF overallRisk >= 8000000 THEN "critical"
  ELSE IF overallRisk >= 6000000 THEN "high"
  ELSE IF overallRisk >= 4000000 THEN "medium"
  ELSE "low"

\* generateRecommendations of part_002.
generateDetailedRecommendations(factors, severity) ==
  LET highRiskFactors == filterIdx({ i \in 1..Len(factors) : gt(factors[i].score, 60000) })
      some(category) ==
        \E i \in 1..Len(factors) :
          factors[i].category = category /\ gt(factors[i].score, 50000)
  IN  (IF severity = "critical"
         THEN <<"Consider immediate position review and potential exit">> ELSE <<>>)
      \o (IF severity = "high"
         THEN <<"Monitor position closely and consider risk reduction">> ELSE <<>>)
      \o [k \in 1..Len(highRiskFactors) |->
            factors[highRiskFactors[k]].name \o ": "
              \o factors[highRiskFactors[k]].mitigation]
      \o (IF some("impermanent_loss")
         THEN <<"Consider more correlated token pairs to reduce IL">> ELSE <<>>)
      \o (IF some("liquidity")
         THEN <<"Move to higher liquidity pools for better exit conditions">>
         ELSE <<>>)
      \o (IF some("protocol")
         THEN <<"Diversify across multiple protocols to reduce concentration">>
         ELSE <<>>)

\* Math.min(100, dataQuality * 0.6 + modelReliability * 0.4)
calculateConfidence(factors) ==
  LET dataQuality == IF Len(factors) >= 4 THEN 80 ELSE Len(factors) * 20
      modelReliability == 85
  IN  Min(100000, dataQuality * 600 + modelReliability * 400)

\* factors.find(f => f.category === category)?.score || 0
scoreOf(factors, category) ==
  LET hits == { i \in 1..Len(factors) : factors[i].category = category }
      first == CHOOSE i \in hits : \A j \in hits : i <= j
  IN  IF hits = {} \/ factors[first].score = NaN THEN 0 ELSE factors[first].score

assessPosition(position, poolData, clock) ==
  LET factors == calculateRiskFactors(position, poolData, clock)
      overall == calculateOverallRisk(factors)
      severity == determineSeverity(overall)
      messages == generateDetailedRecommendations(factors, severity)
  IN  [overall |-> overall,
       impermanentLoss |-> scoreOf(factors, "impermanent_loss"),
       smartContract |-> scoreOf(factors, "smart_contract"),
       liquidity |-> scoreOf(factors, "liquidity"),
       protocol |-> scoreOf(factors, "protocol"),
       factors |-> factors,
       recommendations |-> messages,
       severity |-> severity,
       timeHorizon |-> "30d",
       confidence |-> calculateConfidence(factors)]

calculateDiversificationBenefit(lpPositions) ==
  IF Len(lpPositions) <= 1 THEN 0 ELSE Min(30, Len(lpPositions) * 5)

totalValueOf(lpPositions) == sum([i \in 1..Len(lpPositions) |-> lpPositions[i].currentValue])

\* The reduce of calculatePortfolioRisk: each assessment weighted by the value
\* of the position at the assessment's own index.
weightedRisk(assessments, lpPositions) ==
  LET totalValue == totalValueOf(lpPositions)
  IN  IF totalValue = 0 \/ \E k \in 1..Len(assessments) : assessments[k].overall = NaN
      THEN NaN
      ELSE sum([k \in 1..Len(assessments) |->
                  assessments[k].overall * lpPositions[k].currentValue])
             \div totalValue

calculatePortfolioRisk(assessments, lpPositions) ==
  IF Len(assessments) = 0 THEN 0
  ELSE LET risk == weightedRisk(assessments, lpPositions)
           diversificationBenefit == calculateDiversificationBenefit(lpPositions)
       IN  IF risk = NaN THEN NaN
           ELSE Max(0, (risk * (100 - diversificationBenefit)) \div 100)

calculateSizeDiversity(lpPositions) ==
  LET totalValue == totalValueOf(lpPositions)
      squares == sum([i \in 1..Len(lpPositions) |->
                        lpPositions[i].currentValue * lpPositions[i].currentValue])
  IN  IF totalValue = 0 THEN NaN
      ELSE Max(0, 100000 - (squares * 100000) \div (totalValue * totalValue))

calculateDiversificationScore(lpPositions) ==
  IF Len(lpPositions) <= 1 THEN 0
  ELSE LET protocols == { lpPositions[i].protocol : i \in 1..Len(lpPositions) }
           tokens == { lpPositions[i].token0 : i \in 1..Len(lpPositions) }
                       \cup { lpPositions[i].token1 : i \in 1..Len(lpPositions) }
           protocolDiversity == Min(100000, Cardinality(protocols) * 20000)
           tokenDiversity == Min(100000, Cardinality(tokens) * 10000)
           sizeDiversity == calculateSizeDiversity(lpPositions)
       IN  IF sizeDiversity = NaN THEN NaN
           ELSE (protocolDiversity * 4 + tokenDiversity * 4 + sizeDiversity * 2) \div 10

\* The share of the first position instead of the largest one.
calculateConcentrationRisk_firstPosition(lpPositions) ==
  LET totalValue == totalValueOf(lpPositions)
  IN  IF Len(lpPositions) = 0 THEN NegInfinity
      ELSE IF totalValue = 0 THEN NaN
      ELSE (lpPositions[1].currentValue * 100000) \div totalValue

calculateConcentrationRisk(lpPositions) ==
  LET totalValue == totalValueOf(lpPositions)
      maxPosition == CHOOSE v \in { lpPositions[i].currentValue : i \in 1..Len(lpPositions) } :
                       \A i \in 1..Len(lpPositions) : lpPositions[i].currentValue <= v
  IN  IF Len(lpPositions) = 0 THEN NegInfinity
      ELSE IF totalValue = 0 THEN NaN
      ELSE (maxPosition * 100000) \div totalValue

calculatePortfolioLiquidityRisk(assessments) ==
  IF Len(assessments) = 0 THEN 0
  ELSE sum([k \in 1..Len(assessments) |-> assessments[k].liquidity])
         \div Len(assessments)

calculatePortfolioProtocolRisk(lpPositions) ==
  LET count(p) == Cardinality({ i \in 1..Len(lpPositions) : lpPositions[i].protocol = p })
      counts == { count(lpPositions[i].protocol) : i \in 1..Len(lpPositions) }
      maxProtocolConcentration == CHOOSE n \in counts : \A m \in counts : m <= n
  IN  IF Len(lpPositions) = 0 THEN NegInfinity
      ELSE (maxProtocolConcentration * 100000) \div Len(lpPositions)

calculateMarketRisk == 45000
calculatePortfolioReturn == 12
calculatePortfolioVolatility == 25

calculateRiskAdjustedReturn ==
  IF calculatePortfolioVolatility > 0
  THEN (calculatePortfolioReturn * 1000) \div calculatePortfolioVolatility ELSE 0

\* (portfolioReturn - 0.05) / portfolioVolatility
calculateSharpeRatio ==
  IF calculatePortfolioVolatility > 0
  THEN (calculatePortfolioReturn * 1000 - 50) \div calculatePortfolioVolatility ELSE 0

calculateMaxDrawdown == 15000

\* portfolioValue * portfolioVolatility * 1.645 / 100
calculateValueAtRisk(lpPositions) ==
  (totalValueOf(lpPositions) * calculatePortfolioVolatility * 1645) \div 100

\* poolsData.find(p => p.pair.includes(token0) && p.pair.includes(token1)),
\* 0 when there is none.
findPoolData(poolsData, position) ==
  LET hits == { i \in 1..Len(poolsData) :
                  /\ Includes(poolsData[i].pair, position.token0)
                  /\ Includes(poolsData[i].pair, position.token1) }
  IN  IF hits = {} THEN 0 ELSE CHOOSE i \in hits : \A j \in hits : i <= j

\* The Promise.all of assessPortfolio: per position <<>> for null, else the
\* assessment.
positionAssessments(lpPositions, poolsData, clock) ==
  [i \in 1..Len(lpPositions) |->
     LET p == findPoolData(poolsData, lpPositions[i])
     IN  IF p = 0 THEN <<>>
         ELSE << assessPosition(lpPositions[i], poolsData[p], clock) >>]

\* positionAssessments.filter(Boolean)
validAssessments(all) ==
  LET kept == filterIdx({ i \in 1..Len(all) : all[i] # <<>> })
  IN  [k \in 1..Len(kept) |-> all[kept[k]][1]]

assessPortfolio(lpPositions, poolsData, clock) ==
  LET valid == validAssessments(positionAssessments(lpPositions, poolsData, clock))
  IN  [totalRisk |-> calculatePortfolioRisk(valid, lpPositions),
       diversificationScore |-> calculateDiversificationScore(lpPositions),
       concentrationRisk |-> calculateConcentrationRisk(lpPositions),
       liquidityRisk |-> calculatePortfolioLiquidityRisk(valid),
       protocolRisk |-> calculatePortfolioProtocolRisk(lpPositions),
       marketRisk |-> calculateMarketRisk,
       riskAdjustedReturn |-> calculateRiskAdjustedReturn,
       sharpeRatio |-> calculateSharpeRatio,
       maxDrawdown |-> calculateMaxDrawdown,
       valueAtRisk |-> calculateValueAtRisk(lpPositions)]

\* ------------------------------------------------------- risk engine inputs

\* Pool snapshots handed to the risk engines: protocols known to both engines
\* and one known to neither, tvl from nothing to above the liquidity
\* threshold, with and without turnover.
RiskLiquidity ==
  { [tvl |-> 0, volume24h |-> 0, fees24h |-> 0],
    [tvl |-> 0, volume24h |-> 50, fees24h |-> 1],
    [tvl |-> 1, volume24h |-> 0, fees24h |-> 0],
    [tvl |-> 500, volume24h |-> 40, fees24h |-> 1],
    [tvl |-> 5000, volume24h |-> 2000, fees24h |-> 1] }

RiskPoolData ==
  { [protocol |-> pr, pair |-> pa, apy |-> a, tvl |-> l.tvl,
     volume24h |-> l.volume24h, fees24h |-> l.fees24h] :
      pr \in { "Uniswap V3", "BaseSwap", "PancakeSwap" },
      pa \in { PairLabel(WETH, USDC), PairLabel(USDC, USDT), PairLabel(WBTC, DAI) },
      a \in { 5, 15, 25 },
      l \in RiskLiquidity }

\* The pools scored by the pool-level engine: those, and the same under a
\* protocol name that is a property name of Object.prototype.
ScoredPoolData ==
  RiskPoolData \cup { [p EXCEPT !.protocol = "constructor"] : p \in RiskPoolData }

\* The pools of the repeated-assessment runs.
RepeatedPools ==
  { [protocol |-> "Uniswap V3", pair |-> PairLabel(WETH, USDC), apy |-> 5,
     tvl |-> 5000, volume24h |-> 2000, fees24h |-> 1],
    [protocol |-> "BaseSwap", pair |-> PairLabel(WBTC, DAI), apy |-> 25,
     tvl |-> 1, volume24h |-> 0, fees24h |-> 0],
    [protocol |-> "PancakeSwap", pair |-> PairLabel(WETH, USDC), apy |-> 25,
     tvl |-> 0, volume24h |-> 0, fees24h |-> 0] }

\* The clock reading of the position-level assessments, in hours, and the
\* positions assessed: deposited just now or two days ago.
RiskClock == 2400

RiskPositionData ==
  { [protocol |-> pr, token0 |-> t[1], token1 |-> t[2],
     depositTimestamp |-> RiskClock - age, currentValue |-> v] :
      pr \in { "Uniswap V3", "BaseSwap" },
      t \in { <<WETH, USDC>>, <<USDT, DAI>> },
      age \in { 0, 48 },
      v \in { 1, 3 } }

\* The pools of the portfolio assessments.
PortfolioPools ==
  { [protocol |-> "Uniswap V3", pair |-> PairLabel(WETH, USDC), apy |-> 5,
     tvl |-> 5000, volume24h |-> 2000, fees24h |-> 1],
    [protocol |-> "BaseSwap", pair |-> PairLabel(USDT, DAI), apy |-> 25,
     tvl |-> 500, volume24h |-> 40, fees24h |-> 1] }

InitMore ==
  /\ failed = <<>>
  /\ searched = <<>>
  /\ executed = <<>>
  /\ cache = <<>>
  /\ cacheLog = <<>>
  /\ got = <<>>

InitRisk ==
  /\ weights = protocolRiskWeights
  /\ protocolRiskDatabase = initialProtocolRiskDatabase
  /\ assessed = <<>>
  /\ positionRisk = <<>>

\* ----------------------------------------------------------------- actions

Init ==
  /\ strategy \in Strategies
  /\ positions = <<>>
  /\ availablePools = <<>>
  /\ now = 0
  /\ pc = "idle"
  /\ idx = 0
  /\ recommendations = <<>>
  /\ positionsAtRisk = 0
  /\ underperformingPositions = 0
  /\ totalPotentialGain = 0
  /\ result = <<>>
  /\ InitCalls
  /\ InitSettings
  /\ InitRisk
  /\ InitMore

\* this.positions = await fetchUserPositions(walletAddress)
FetchPositions ==
  /\ pc = "idle"
  /\ \E data \in SeqsUpTo(PositionData, MaxPositions) :
       positions' = fetchUserPositions(WalletA, data, now)
  /\ pc' = "pools"
  /\ UNCHANGED <<strategy, availablePools, now, idx, recommendations,
                 positionsAtRisk, underperformingPositions,
                 totalPotentialGain, result>>
  /\ UNCHANGED <<calls, settingsVars, riskVars, moreVars>>

\* this.availablePools = await fetchUniswapPools(50), then the loop's locals
FetchPools ==
  /\ pc = "pools"
  /\ availablePools' \in SeqsUpTo(PoolData, MaxPools)
  /\ recommendations' = <<>>
  /\ positionsAtRisk' = 0
  /\ underperformingPositions' = 0
  /\ totalPotentialGain' = 0
  /\ idx' = 1
  /\ pc' = "loop"
  /\ UNCHANGED <<strategy, positions, now, result>>
  /\ UNCHANGED <<calls, settingsVars, riskVars, moreVars>>

\* One iteration of the for loop over this.positions. The clock is read by
\* estimateImpermanentLoss, which runs only when a current pool was found.
AnalyzeNext ==
  /\ pc = "loop"
  /\ idx <= Len(positions)
  /\ LET position == positions[idx]
         found == findCurrentPool(availablePools, position) # 0
     IN  /\ IF found THEN \E d \in ClockAdvance : now' = now + d
                     ELSE now' = now
         /\ LET analysis == analyzePosition(strategy, availablePools, position, now')
            IN  IF analysis # <<>> THEN
                  /\ recommendations' = pushRecommendation(recommendations, analysis[1])
                  /\ positionsAtRisk' =
                       IF analysis[1].urgency = "high"
                       THEN positionsAtRisk + 1 ELSE positionsAtRisk
                  /\ underperformingPositions' =
                       IF analysis[1].action \in {"rebalance", "exit"}
                       THEN underperformingPositions + 1
                       ELSE underperformingPositions
                  /\ totalPotentialGain' =
                       IF "expectedGain" \in DOMAIN analysis[1]
                          /\ analysis[1].expectedGain # 0
                       THEN totalPotentialGain + analysis[1].expectedGain
                       ELSE totalPotentialGain
                ELSE UNCHANGED <<recommendations, positionsAtRisk,
                                 underperformingPositions, totalPotentialGain>>
  /\ idx' = idx + 1
  /\ UNCHANGED <<strategy, positions, availablePools, pc, result>>
  /\ UNCHANGED <<calls, settingsVars, riskVars, moreVars>>

\* return { totalPositions, positionsAtRisk, ... }
Return ==
  /\ pc = "loop"
  /\ idx > Len(positions)
  /\ result' = << [totalPositions |-> Len(positions),
                   positionsAtRisk |-> positionsAtRisk,
                   underperformingPositions |-> underperformingPositions,
                   totalPotentialGain |-> totalPotentialGain,
                   recommendations |-> recommendations] >>
  /\ pc' = "done"
  /\ UNCHANGED <<strategy, positions, availablePools, now, idx,
                 recommendations, positionsAtRisk, underperformingPositions,
                 totalPotentialGain>>
  /\ UNCHANGED <<calls, settingsVars, riskVars, moreVars>>

Next == FetchPositions \/ FetchPools \/ AnalyzeNext \/ Return

Spec == Init /\ [][Next]_vars

\* The same run for an engine whose strategy may also tolerate no impermanent
\* loss at all (maxImpermanentLoss 0 passes validateStrategy).
InitFresh ==
  /\ strategy \in Strategies \cup { createCustomStrategy(10, 0, "medium", 0) }
  /\ positions = <<>>
  /\ availablePools = <<>>
  /\ now = 0
  /\ pc = "idle"
  /\ idx = 0
  /\ recommendations = <<>>
  /\ positionsAtRisk = 0
  /\ underperformingPositions = 0
  /\ totalPotentialGain = 0
  /\ result = <<>>
  /\ InitCalls
  /\ InitSettings
  /\ InitRisk
  /\ InitMore

SpecFresh == InitFresh /\ [][Next]_vars

\* ------------------------------------------------- subgraph requests that fail
\* The two ways a subgraph request fails: fetch rejects (network exception) or
\* the response carries an errors field.
SubgraphFailures == { "exception", "errors" }

\* fetchUserPositions when its request fails: `if (data.errors) return []` and
\* `catch (error) { ...; return []; }`, so the engine is handed no positions.
FetchPositionsFails ==
  /\ pc = "idle"
  /\ \E failure \in SubgraphFailures :
       failed' = Append(failed, [request |-> "positions", failure |-> failure])
  /\ UNCHANGED <<searched, executed, cacheVars>>
  /\ positions' = <<>>
  /\ pc' = "pools"
  /\ UNCHANGED <<strategy, availablePools, now, idx, recommendations,
                 positionsAtRisk, underperformingPositions,
                 totalPotentialGain, result>>
  /\ UNCHANGED <<calls, settingsVars, riskVars>>

\* fetchUniswapPools when its request fails: the same two returns of [].
FetchPoolsFails ==
  /\ pc = "pools"
  /\ \E failure \in SubgraphFailures :
       failed' = Append(failed, [request |-> "pools", failure |-> failure])
  /\ UNCHANGED <<searched, executed, cacheVars>>
  /\ availablePools' = <<>>
  /\ recommendations' = <<>>
  /\ positionsAtRisk' = 0
  /\ underperformingPositions' = 0
  /\ totalPotentialGain' = 0
  /\ idx' = 1
  /\ pc' = "loop"
  /\ UNCHANGED <<strategy, positions, now, result>>
  /\ UNCHANGED <<calls, settingsVars, riskVars>>

NextFailing ==
  \/ FetchPositions \/ FetchPositionsFails
  \/ FetchPools \/ FetchPoolsFails
  \/ AnalyzeNext \/ Return

SpecFailing == Init /\ [][NextFailing]_vars

\* ------------------------------------------------------ the candidate searches
\* Pool lists in which candidates tie: with the current pool at apy 4 and
\* riskScore 85, apy 7 / riskScore 40 and apy 8 / riskScore 50 both score 3.0
\* in the better-pool search, apy 7 / riskScore 40 and apy 17 / riskScore 50
\* both score -33 in the safer-pool search.
SearchPoolData ==
  { [pair |-> p, apy |-> m[1], riskScore |-> m[2]] :
      p \in PoolPairs,
      m \in { <<4, 85>>, <<7, 40>>, <<8, 50>>, <<10, 50>>, <<17, 50>> } }

\* const betterPool = this.findBetterPool(position, currentPool), for any
\* strategy, pool list and position whose current pool was found.
FindBetterPool ==
  /\ searched = <<>>
  /\ \E strat \in Strategies, pools \in SeqsUpTo(SearchPoolData, MaxSearchPools),
        data \in PositionData :
       LET position == fetchUserPositions(WalletA, <<data>>, now)[1]
           found == findCurrentPool(pools, position)
       IN  /\ found # 0
           /\ searched' =
                << [search |-> "better", riskTolerance |-> strat.riskTolerance,
                    pools |-> pools, position |-> position,
                    currentPool |-> pools[found],
                    selected |-> findBetterPool(strat, pools, position, pools[found])] >>
  /\ UNCHANGED <<engineVars, calls, settingsVars, riskVars, failed, executed, cacheVars>>

\* const saferPool = this.findSaferPool(position, currentPool)
FindSaferPool ==
  /\ searched = <<>>
  /\ \E pools \in SeqsUpTo(SearchPoolData, MaxSearchPools), data \in PositionData :
       LET position == fetchUserPositions(WalletA, <<data>>, now)[1]
           found == findCurrentPool(pools, position)
       IN  /\ found # 0
           /\ searched' =
                << [search |-> "safer",
                    pools |-> pools, position |-> position,
                    currentPool |-> pools[found],
                    selected |-> findSaferPool(pools, position, pools[found])] >>
  /\ UNCHANGED <<engineVars, calls, settingsVars, riskVars, failed, executed, cacheVars>>

NextSearch == FindBetterPool \/ FindSaferPool

SpecSearch == Init /\ [][NextSearch]_vars

\* evaluatePosition as a function of its inputs: the engine right after both
\* fetches of a run whose wallet holds one position, any strategy, any pool
\* list; the loop then evaluates that position and the call returns.
InitEval ==
  /\ strategy \in Strategies
  /\ \E data \in PositionData : positions = fetchUserPositions(WalletA, <<data>>, 0)
  /\ availablePools \in SeqsUpTo(PoolData, MaxPools)
  /\ now = 0
  /\ pc = "loop"
  /\ idx = 1
  /\ recommendations = <<>>
  /\ positionsAtRisk = 0
  /\ underperformingPositions = 0
  /\ totalPotentialGain = 0
  /\ result = <<>>
  /\ InitCalls
  /\ InitSettings
  /\ InitRisk
  /\ InitMore

NextEval == AnalyzeNext \/ Return

SpecEval == InitEval /\ [][NextEval]_vars

\* ------------------------------------------------------- executeRebalancing
\* rebalancePosition and adjustPosition read newPool.protocol for their log
\* line: without a newPool that read throws a TypeError. What a call
\* resolves to is held as [value |-> ...].
rebalancePosition(recommendation) ==
  IF "newPool" \in DOMAIN recommendation THEN [value |-> TRUE] ELSE TypeError

adjustPosition(recommendation) ==
  IF "newPool" \in DOMAIN recommendation THEN [value |-> TRUE] ELSE TypeError

\* The switch of executeRebalancing inside its try; the catch returns false.
executeRebalancing(recommendation) ==
  LET outcome ==
        CASE recommendation.action = "exit" -> [value |-> TRUE]
          [] recommendation.action = "rebalance" -> rebalancePosition(recommendation)
          [] recommendation.action = "adjust" -> adjustPosition(recommendation)
          [] OTHER -> [value |-> TRUE]
  IN  IF outcome = TypeError THEN FALSE ELSE outcome.value

\* engine.executeRebalancing(recommendation) for a recommendation of the
\* analysis that analyzePositions returned.
ExecuteRebalancing ==
  /\ pc = "done"
  /\ executed = <<>>
  /\ \E k \in 1..Len(result[1].recommendations) :
       LET recommendation == result[1].recommendations[k]
       IN  executed' = << [recommendation |-> recommendation,
                           returned |-> executeRebalancing(recommendation)] >>
  /\ UNCHANGED <<engineVars, calls, settingsVars, riskVars, failed, searched, cacheVars>>

NextExecute == AnalyzeNext \/ Return \/ ExecuteRebalancing

SpecExecute == InitEval /\ [][NextExecute]_vars

\* ------------------------------------------- actions: overlapping calls

CallPositionLists == SeqsUpTo(PositionData, MaxPositions)

CallPoolLists ==
  SeqsUpTo({ [pair |-> PairLabel(ETH, USDC), apy |-> 4, riskScore |-> 50],
             [pair |-> PairLabel(WETH, USDC), apy |-> 10, riskScore |-> 50] }, 1)

\* The hours between two clock readings of the overlapping calls.
CallClockAdvance == { 24 }

\* The body of the if (analysis) block: push and the three counters.
tally(call, analysis) ==
  [call EXCEPT
     !.recommendations = pushRecommendation(@, analysis),
     !.positionsAtRisk = IF analysis.urgency = "high" THEN @ + 1 ELSE @,
     !.underperformingPositions =
        IF analysis.action \in {"rebalance", "exit"} THEN @ + 1 ELSE @,
     !.totalPotentialGain =
        IF "expectedGain" \in DOMAIN analysis /\ analysis.expectedGain # 0
        THEN @ + analysis.expectedGain ELSE @]

\* The call runs from the top of iteration k to its next await, or past the
\* loop to its return statement: analyzePosition(position) runs to its end
\* when called, on the pools and the clock of that moment, and the return
\* statement reads this.positions.length.
runToAwait(call, k, thisPositions, pools, clock) ==
  IF k <= Len(call.iter)
  THEN [call EXCEPT !.pc = "loop", !.idx = k,
                    !.pending = analyzePosition(strategy, pools, call.iter[k], clock)]
  ELSE [call EXCEPT !.pc = "done", !.idx = k, !.pending = <<>>,
                    !.result = << [totalPositions |-> Len(thisPositions),
                                   positionsAtRisk |-> call.positionsAtRisk,
                                   underperformingPositions |->
                                     call.underperformingPositions,
                                   totalPotentialGain |-> call.totalPotentialGain,
                                   recommendations |-> call.recommendations] >>]

\* Both calls have been made on an engine with the given strategy and await
\* their fetchUserPositions.
InitOverlap ==
  /\ strategy \in Strategies
  /\ positions = <<>>
  /\ availablePools = <<>>
  /\ now = 0
  /\ pc = "idle"
  /\ idx = 0
  /\ recommendations = <<>>
  /\ positionsAtRisk = 0
  /\ underperformingPositions = 0
  /\ totalPotentialGain = 0
  /\ result = <<>>
  /\ calls = [c \in CallIds |-> [notCalled EXCEPT !.pc = "positions"]]
  /\ InitSettings
  /\ InitRisk
  /\ InitMore

\* this.positions = await fetchUserPositions(walletAddress), up to the next await
CallPositionsFetched(c) ==
  /\ calls[c].pc = "positions"
  /\ \E data \in CallPositionLists :
       LET fetched == fetchUserPositions(walletOf(c), data, now)
       IN  /\ positions' = fetched
           /\ calls' = [calls EXCEPT ![c].pc = "pools",
                                     ![c].fetchedPositions = fetched]
  /\ UNCHANGED <<strategy, availablePools, now, pc, idx, recommendations,
                 positionsAtRisk, underperformingPositions,
                 totalPotentialGain, result>>
  /\ UNCHANGED <<settingsVars, riskVars, moreVars>>

\* this.availablePools = await fetchUniswapPools(50); the locals; the for...of
\* takes the array this.positions holds now; the first iteration up to its await
CallPoolsFetched(c) ==
  /\ calls[c].pc = "pools"
  /\ \E fetched \in CallPoolLists, d \in CallClockAdvance :
       LET entered == [calls[c] EXCEPT !.fetchedPools = fetched,
                                       !.iter = positions]
           found == /\ Len(positions) >= 1
                    /\ findCurrentPool(fetched, positions[1]) # 0
       IN  /\ availablePools' = fetched
           /\ now' = IF found THEN now + d ELSE now
           /\ calls' = [calls EXCEPT
                          ![c] = runToAwait(entered, 1, positions, fetched, now')]
  /\ UNCHANGED <<strategy, positions, pc, idx, recommendations,
                 positionsAtRisk, underperformingPositions,
                 totalPotentialGain, result>>
  /\ UNCHANGED <<settingsVars, riskVars, moreVars>>

\* The await of analyzePosition resumes: the if (analysis) block, then the
\* next iteration up to its await, or the return.
CallResumed(c) ==
  /\ calls[c].pc = "loop"
  /\ \E d \in CallClockAdvance :
       LET call == calls[c]
           tallied == IF call.pending # <<>> THEN tally(call, call.pending[1])
                      ELSE call
           k == call.idx + 1
           found == /\ k <= Len(call.iter)
                    /\ findCurrentPool(availablePools, call.iter[k]) # 0
       IN  /\ now' = IF found THEN now + d ELSE now
           /\ calls' = [calls EXCEPT
                          ![c] = runToAwait(tallied, k, positions,
                                            availablePools, now')]
  /\ UNCHANGED <<strategy, positions, availablePools, pc, idx, recommendations,
                 positionsAtRisk, underperformingPositions,
                 totalPotentialGain, result>>
  /\ UNCHANGED <<settingsVars, riskVars, moreVars>>

NextOverlap ==
  \E c \in CallIds :
    CallPositionsFetched(c) \/ CallPoolsFetched(c) \/ CallResumed(c)

SpecOverlap == InitOverlap /\ [][NextOverlap]_vars

\* ----------------------------------------------- actions: settings page

\* No analysis is under way on the engine; the clock reads clock.
EngineIdle(clock) ==
  /\ strategy = DEFAULT_STRATEGIES[2]
  /\ positions = <<>>
  /\ availablePools = <<>>
  /\ now = clock
  /\ pc = "idle"
  /\ idx = 0
  /\ recommendations = <<>>
  /\ positionsAtRisk = 0
  /\ underperformingPositions = 0
  /\ totalPotentialGain = 0
  /\ result = <<>>

\* The page as mounted, nothing saved in localStorage.
InitPage ==
  /\ EngineIdle(0)
  /\ InitCalls
  /\ InitSettings
  /\ InitRisk
  /\ InitMore

\* onClick={() => setIsCreatingStrategy(true)}
OpenCreate ==
  /\ ~isCreatingStrategy
  /\ isCreatingStrategy' = TRUE
  /\ UNCHANGED <<strategies, newStrategy, validated>>
  /\ UNCHANGED <<engineVars, calls, riskVars, moreVars>>

\* The Cancel button of the modal.
CancelCreate ==
  /\ isCreatingStrategy
  /\ isCreatingStrategy' = FALSE
  /\ UNCHANGED <<strategies, newStrategy, validated>>
  /\ UNCHANGED <<engineVars, calls, riskVars, moreVars>>

\* onChange of the Target APY input
ChangeTargetAPY ==
  /\ isCreatingStrategy
  /\ \E v \in TargetAPYInputs : newStrategy' = [newStrategy EXCEPT !.targetAPY = v]
  /\ UNCHANGED <<strategies, isCreatingStrategy, validated>>
  /\ UNCHANGED <<engineVars, calls, riskVars, moreVars>>

\* onChange of the Max Impermanent Loss input
ChangeMaxImpermanentLoss ==
  /\ isCreatingStrategy
  /\ \E v \in MaxImpermanentLossInputs :
       newStrategy' = [newStrategy EXCEPT !.maxImpermanentLoss = v]
  /\ UNCHANGED <<strategies, isCreatingStrategy, validated>>
  /\ UNCHANGED <<engineVars, calls, riskVars, moreVars>>

\* onChange of the Risk Tolerance select
ChangeRiskTolerance ==
  /\ isCreatingStrategy
  /\ \E v \in RiskToleranceOptions :
       newStrategy' = [newStrategy EXCEPT !.riskTolerance = v]
  /\ UNCHANGED <<strategies, isCreatingStrategy, validated>>
  /\ UNCHANGED <<engineVars, calls, riskVars, moreVars>>

\* createNewStrategy: createCustomStrategy reads the clock once for the
\* strategy that is validated and once more for the one that is added.
CreateNewStrategy ==
  /\ isCreatingStrategy
  /\ now <= MaxTick
  /\ Len(strategies) < MaxStrategies
  /\ \E d1 \in TickAdvance, d2 \in TickAdvance :
       LET candidate ==
             [createCustomStrategy(newStrategy.targetAPY,
                                   newStrategy.maxImpermanentLoss,
                                   newStrategy.riskTolerance, now + d1)
                EXCEPT !.enabled = FALSE]
           errors == validateStrategy(candidate)
       IN  /\ validated' = << [strategy |-> candidate, errors |-> errors] >>
           /\ IF Len(errors) > 0
              THEN /\ now' = now + d1
                   /\ UNCHANGED <<strategies, newStrategy, isCreatingStrategy>>
              ELSE /\ now' = now + d1 + d2
                   /\ strategies' =
                        Append(strategies,
                               createCustomStrategy(newStrategy.targetAPY,
                                                    newStrategy.maxImpermanentLoss,
                                                    newStrategy.riskTolerance, now'))
                   /\ isCreatingStrategy' = FALSE
                   /\ newStrategy' = blankStrategyForm
  /\ UNCHANGED <<strategy, positions, availablePools, pc, idx, recommendations,
                 positionsAtRisk, underperformingPositions,
                 totalPotentialGain, result>>
  /\ UNCHANGED <<calls, riskVars, moreVars>>

\* onClick={() => toggleStrategy(strategy.id)} of a strategy card
ToggleStrategy ==
  /\ \E i \in 1..Len(strategies) :
       strategies' = toggleStrategy(strategies, strategies[i].id)
  /\ UNCHANGED <<newStrategy, isCreatingStrategy, validated>>
  /\ UNCHANGED <<engineVars, calls, riskVars, moreVars>>

\* onClick={() => deleteStrategy(strategy.id)}, shown on custom strategies,
\* with the confirm dialog answered yes
DeleteStrategy ==
  /\ \E i \in 1..Len(strategies) :
       /\ isCustomId(strategies[i].id)
       /\ strategies' = deleteStrategy(strategies, strategies[i].id)
  /\ UNCHANGED <<newStrategy, isCreatingStrategy, validated>>
  /\ UNCHANGED <<engineVars, calls, riskVars, moreVars>>

NextPage ==
  \/ OpenCreate \/ CancelCreate
  \/ ChangeTargetAPY \/ ChangeMaxImpermanentLoss \/ ChangeRiskTolerance
  \/ CreateNewStrategy \/ ToggleStrategy \/ DeleteStrategy

SpecPage == InitPage /\ [][NextPage]_vars

\* ------------------------------------------------ actions: risk engines

\* An assessPool that keeps what it saw: the pool's tvl, in millions, is pushed
\* onto the tvlHistory of its protocol.
AssessPool_recordsTvl(pools, limit) ==
  /\ Len(assessed) < limit
  /\ \E pool \in pools :
       /\ assessed' = Append(assessed,
                             [call |-> "assessPool", pool |-> pool,
                              result |-> assessPool(weights, protocolRiskDatabase, pool)])
       /\ protocolRiskDatabase' =
            IF pool.protocol \in DOMAIN protocolRiskDatabase
            THEN [protocolRiskDatabase EXCEPT
                    ![pool.protocol].tvlHistory = Append(@, pool.tvl \div 10000)]
            ELSE protocolRiskDatabase
  /\ UNCHANGED <<weights, positionRisk>>
  /\ UNCHANGED <<engineVars, calls, settingsVars, moreVars>>

\* riskAssessmentEngine.assessPool(pool), the call and its result logged
AssessPool(pools, limit) ==
  /\ Len(assessed) < limit
  /\ \E pool \in pools :
       assessed' = Append(assessed,
                          [call |-> "assessPool", pool |-> pool,
                           result |-> assessPool(weights, protocolRiskDatabase, pool)])
  /\ UNCHANGED <<weights, protocolRiskDatabase, positionRisk>>
  /\ UNCHANGED <<engineVars, calls, settingsVars, moreVars>>

\* riskAssessmentEngine.assessPortfolio(pools) of api.ts, logged likewise
AssessPoolPortfolio(lists, limit) ==
  /\ Len(assessed) < limit
  /\ \E pools \in lists :
       assessed' = Append(assessed,
                          [call |-> "assessPortfolio", pools |-> pools,
                           result |-> assessPoolPortfolio(weights,
                                                          protocolRiskDatabase, pools)])
  /\ UNCHANGED <<weights, protocolRiskDatabase, positionRisk>>
  /\ UNCHANGED <<engineVars, calls, settingsVars, moreVars>>

InitScoring ==
  /\ EngineIdle(RiskClock)
  /\ InitCalls
  /\ InitSettings
  /\ InitRisk
  /\ InitMore

\* One assessPool call on any pool snapshot.
NextPoolScore == AssessPool(ScoredPoolData, 1)

SpecPoolScore == InitScoring /\ [][NextPoolScore]_vars

\* A run of assessPool and assessPortfolio calls on one engine.
NextRepeated ==
  \/ AssessPool(RepeatedPools, MaxAssessments)
  \/ AssessPoolPortfolio(SeqsUpTo(RepeatedPools, 2), MaxAssessments)

SpecRepeated == InitScoring /\ [][NextRepeated]_vars

\* The engine of part_002 has no fields that a call writes, so one call is
\* followed from the engine as constructed.
\* assessPosition(position, poolData) of part_002; Date.now() reads now
AssessPosition ==
  /\ positionRisk = <<>>
  /\ \E position \in RiskPositionData, poolData \in RiskPoolData :
       positionRisk' = << [call |-> "assessPosition",
                           position |-> position, poolData |-> poolData,
                           result |-> assessPosition(position, poolData, now)] >>
  /\ UNCHANGED <<weights, protocolRiskDatabase, assessed>>
  /\ UNCHANGED <<engineVars, calls, settingsVars, moreVars>>

\* assessPortfolio(positions, poolsData) of part_002
AssessPortfolio ==
  /\ positionRisk = <<>>
  /\ \E ps \in SeqsUpTo(RiskPositionData, MaxPositions),
        poolsData \in SeqsUpTo(PortfolioPools, MaxPools) :
       positionRisk' = << [call |-> "assessPortfolio",
                           positions |-> ps, poolsData |-> poolsData,
                           assessments |-> positionAssessments(ps, poolsData, now),
                           result |-> assessPortfolio(ps, poolsData, now)] >>
  /\ UNCHANGED <<weights, protocolRiskDatabase, assessed>>
  /\ UNCHANGED <<engineVars, calls, settingsVars, moreVars>>

NextPositionRisk == AssessPosition \/ AssessPortfolio

SpecPositionRisk == InitScoring /\ [][NextPositionRisk]_vars

\* ------------------------------------------------------------ the rate cache
\* const CACHE_DURATION = 30000, in milliseconds
CACHE_DURATION == 30000

\* getCachedData with `<=` for `<`.
getCachedData_inclusive(c, key, clock) ==
  IF key \in DOMAIN c /\ clock - c[key].timestamp <= CACHE_DURATION
  THEN c[key].data
  ELSE <<>>

\* getCachedData(key) on the Map c at the clock reading given; null is <<>>.
getCachedData(c, key, clock) ==
  IF key \in DOMAIN c /\ clock - c[key].timestamp < CACHE_DURATION
  THEN c[key].data
  ELSE <<>>

\* cache.set(key, { data, timestamp: Date.now() })
setCachedData(c, key, data, clock) ==
  [k \in DOMAIN c \cup {key} |->
     IF k = key THEN [data |-> data, timestamp |-> clock] ELSE c[k]]

\* The keys loadRates builds (`rates-${tokenPair}`) and the rate lists it
\* stores, rates in cents.
CacheKeys == { "rates-ETH/USDC", "rates-WETH/USDC" }

CacheData == { <<177265, 177189>>, <<177301, 177189>> }

\* Date.now() in milliseconds; time passes between two calls.
CacheClockAdvance == { 29999, 30000 }

SetCachedData ==
  /\ Len(cacheLog) < MaxCacheSets
  /\ \E key \in CacheKeys, data \in CacheData :
       /\ cache' = setCachedData(cache, key, data, now)
       /\ cacheLog' = Append(cacheLog, [key |-> key, data |-> data, at |-> now])
  /\ UNCHANGED <<engineVars, calls, settingsVars, riskVars,
                 failed, searched, executed, got>>

GetCachedData ==
  /\ \E key \in CacheKeys :
       got' = << [key |-> key, at |-> now, sets |-> Len(cacheLog),
                  returned |-> getCachedData(cache, key, now)] >>
  /\ UNCHANGED <<engineVars, calls, settingsVars, riskVars,
                 failed, searched, executed, cache, cacheLog>>

CacheTick ==
  /\ \E d \in CacheClockAdvance :
       /\ now + d <= MaxCacheClock
       /\ now' = now + d
  /\ UNCHANGED <<strategy, positions, availablePools, pc, idx, recommendations,
                 positionsAtRisk, underperformingPositions,
                 totalPotentialGain, result>>
  /\ UNCHANGED <<calls, settingsVars, riskVars, moreVars>>

NextCache == SetCachedData \/ GetCachedData \/ CacheTick

\* The module-level Map is empty when api.ts is loaded, at clock reading 0.
InitCache ==
  /\ EngineIdle(0)
  /\ InitCalls
  /\ InitSettings
  /\ InitRisk
  /\ InitMore

SpecCache == InitCache /\ [][NextCache]_vars

\* ------------------------------------------------- the riskiest positions
PEPE == <<"P", "E", "P", "E">>

\* Positions over the most volatile tokens of the table and over a token it
\* does not list, deposited just now or a hundred days ago.
VolatilePositionData ==
  { [protocol |-> "Uniswap V3", token0 |-> t[1], token1 |-> t[2],
     depositTimestamp |-> d, currentValue |-> 1] :
      t \in { <<WBTC, WBTC>>, <<WBTC, WETH>>, <<WBTC, PEPE>>, <<WETH, USDC>> },
      d \in { 0, RiskClock } }

\* assessPosition(position, poolData) of part_002 for such a position and a
\* pool of any liquidity, under a listed, an unlisted or an inherited
\* protocol name.
AssessVolatilePosition ==
  /\ positionRisk = <<>>
  /\ \E position \in VolatilePositionData, poolData \in ScoredPoolData :
       positionRisk' = << [call |-> "assessPosition",
                           position |-> position, poolData |-> poolData,
                           result |-> assessPosition(position, poolData, now)] >>
  /\ UNCHANGED <<weights, protocolRiskDatabase, assessed>>
  /\ UNCHANGED <<engineVars, calls, settingsVars, moreVars>>

NextSeverity == AssessVolatilePosition

SpecSeverity == InitScoring /\ [][NextSeverity]_vars

\* --------------------------------------------- portfolios that are enlarged

\* Positions of small and of large value, on two protocols, over two pairs.
GrowthPositionData ==
  { [protocol |-> pr, token0 |-> t[1], token1 |-> t[2],
     depositTimestamp |-> RiskClock, currentValue |-> v] :
      pr \in { "Uniswap V3", "BaseSwap" },
      t \in { <<WETH, USDC>>, <<WETH, DAI>> },
      v \in { 1, 50 } }

\* assessPortfolio(positions, []) of part_002 on the engine as constructed
AssessPortfolioAlone ==
  /\ positionRisk = <<>>
  /\ \E ps \in SeqsUpTo(GrowthPositionData, MaxPositions) :
       positionRisk' = << [call |-> "assessPortfolio",
                           positions |-> ps, poolsData |-> <<>>,
                           assessments |-> positionAssessments(ps, <<>>, now),
                           result |-> assessPortfolio(ps, <<>>, now)] >>
  /\ UNCHANGED <<weights, protocolRiskDatabase, assessed>>
  /\ UNCHANGED <<engineVars, calls, settingsVars, moreVars>>

\* A second assessPortfolio call, on the same positions and one more.
AssessPortfolioEnlarged ==
  /\ Len(positionRisk) = 1
  /\ positionRisk[1].call = "assessPortfolio"
  /\ \E position \in GrowthPositionData :
       LET ps == Append(positionRisk[1].positions, position)
       IN  positionRisk' =
             Append(positionRisk,
                    [call |-> "assessPortfolio",
                     positions |-> ps, poolsData |-> <<>>,
                     assessments |-> positionAssessments(ps, <<>>, now),
                     result |-> assessPortfolio(ps, <<>>, now)])
  /\ UNCHANGED <<weights, protocolRiskDatabase, assessed>>
  /\ UNCHANGED <<engineVars, calls, settingsVars, moreVars>>

NextGrowth == AssessPortfolioAlone \/ AssessPortfolioEnlarged

SpecGrowth == InitScoring /\ [][NextGrowth]_vars

\* ------------------------------------------- a wall clock that was set back

\* The hours by which the clock read at the fetch was ahead of the clock as
\* it reads now: Date.now() follows the system clock, which can be set back.
ClockSetBack == { 0, 1, 24, 25, 200 * 24 }

\* The engine after both fetches, one position, the clock set back since.
InitSkew ==
  /\ strategy \in Strategies
  /\ \E data \in PositionData, ahead \in ClockSetBack :
       positions = fetchUserPositions(WalletA, <<data>>, ahead)
  /\ availablePools \in SeqsUpTo(PoolData, MaxPools)
  /\ now = 0
  /\ pc = "loop"
  /\ idx = 1
  /\ recommendations = <<>>
  /\ positionsAtRisk = 0
  /\ underperformingPositions = 0
  /\ totalPotentialGain = 0
  /\ result = <<>>
  /\ InitCalls
  /\ InitSettings
  /\ InitRisk
  /\ InitMore

SpecSkew == InitSkew /\ [][NextEval]_vars

\* ------------------------------------------------------ claims: vocabulary

\* The last loop iteration produced a recommendation: it is the last of the
\* list, it is for positions[idx - 1], and the clock reading it used is now.
JustEvaluated ==
  /\ pc \in {"loop", "done"}
  /\ idx > 1
  /\ recommendations # <<>>
  /\ recommendations[Len(recommendations)].positionId = idx - 1

LastPosition == positions[idx - 1]
LastRec == recommendations[Len(recommendations)]
LastPool == availablePools[findCurrentPool(availablePools, LastPosition)]
LastIL == estimateImpermanentLoss(LastPosition, now)

\* The pair label is token0/token1 or token1/token0 of the position.
SamePair(pool, position) ==
  pool.pair \in { PairLabel(position.token0, position.token1),
                  PairLabel(position.token1, position.token0) }

ToleranceCeiling(tolerance) ==
  IF tolerance = "low" THEN 40 ELSE IF tolerance = "medium" THEN 60 ELSE 80

\* The conditions of rules 1 to 4 as the engine tests them.
Rule1 == LastIL > 2 * 10 * strategy.maxImpermanentLoss
Rule2 ==
  /\ 10 * LastPool.apy < 7 * strategy.targetAPY
  /\ findBetterPool(strategy, availablePools, LastPosition, LastPool) # 0
Rule3 ==
  /\ LastPool.riskScore > ToleranceCeiling(strategy.riskTolerance)
  /\ findSaferPool(availablePools, LastPosition, LastPool) # 0
Rule4 == LastIL > 10 * strategy.maxImpermanentLoss

HasCandidate(rec) == "newPool" \in DOMAIN rec

\* ---------------------------------------------------------------------- C1

\* C1: whenever the estimated impermanent loss of a position with a current
\* pool is above twice the strategy's maxImpermanentLoss, its recommendation
\* is exit with urgency high, whatever the pool's APY and risk score and the
\* candidate pools are.
C1_ExitAboveTwiceMaxLoss ==
  (JustEvaluated /\ LastIL > 2 * 10 * strategy.maxImpermanentLoss)
    => (LastRec.action = "exit" /\ LastRec.urgency = "high")

\* An exit issued although the pool underperforms with a better candidate at
\* hand and its risk is above the ceiling with a safer candidate at hand.
C1_Witness ==
  /\ JustEvaluated
  /\ LastIL > 2 * 10 * strategy.maxImpermanentLoss
  /\ Rule2
  /\ Rule3
  /\ LastRec.action = "exit"

\* ---------------------------------------------------------------------- C2

\* C2: the five rules are evaluated in strict priority order: action and
\* urgency of a recommendation are those of the lowest-numbered rule whose
\* condition holds (1 exit/high, 2 rebalance/high or medium, 3 adjust/medium
\* with a candidate pool, 4 adjust/medium without one, 5 hold/low).
C2_StrictPriority ==
  JustEvaluated =>
    IF Rule1 THEN LastRec.action = "exit" /\ LastRec.urgency = "high"
    ELSE IF Rule2 THEN /\ LastRec.action = "rebalance"
                       /\ LastRec.urgency \in {"high", "medium"}
    ELSE IF Rule3 THEN /\ LastRec.action = "adjust"
                       /\ LastRec.urgency = "medium"
                       /\ HasCandidate(LastRec)
    ELSE IF Rule4 THEN /\ LastRec.action = "adjust"
                       /\ LastRec.urgency = "medium"
                       /\ ~HasCandidate(LastRec)
    ELSE LastRec.action = "hold" /\ LastRec.urgency = "low"

\* Rules 2, 3 and 4 hold at once and rule 1 does not: rebalance is issued.
C2_Witness ==
  /\ JustEvaluated
  /\ ~Rule1 /\ Rule2 /\ Rule3 /\ Rule4
  /\ LastRec.action = "rebalance"

\* Rules 3 and 4 hold at once, rules 1 and 2 do not: the rule-3 adjust.
C2_WitnessRiskBeforeLoss ==
  /\ JustEvaluated
  /\ ~Rule1 /\ ~Rule2 /\ Rule3 /\ Rule4
  /\ LastRec.action = "adjust" /\ HasCandidate(LastRec)

\* ---------------------------------------------------------------------- C3

\* C3: when rule 1 does not fire, the action is rebalance exactly when the
\* current pool's APY is below 0.7 x targetAPY and some pool of the list has
\* the position's token pair, an APY of at least 1.10 x the current APY (an
\* APY of exactly 1.10 x qualifies) and a risk score within the ceiling of
\* the strategy's risk tolerance.
C3_RebalanceExactlyWhen ==
  (JustEvaluated /\ ~Rule1) =>
    ( LastRec.action = "rebalance"
      <=> /\ 10 * LastPool.apy < 7 * strategy.targetAPY
          /\ \E i \in 1..Len(availablePools) :
               /\ SamePair(availablePools[i], LastPosition)
               /\ 10 * availablePools[i].apy >= 11 * LastPool.apy
               /\ availablePools[i].riskScore
                    <= ToleranceCeiling(strategy.riskTolerance) )

\* ---------------------------------------------------------------------- C4

\* C4: a rebalance recommendation's expectedGain is positionValue x
\* (candidateAPY - currentAPY) / 100, and its urgency is high when that gain
\* exceeds the strategy's rebalanceThreshold and medium otherwise.
C4_RebalanceGainAndUrgency ==
  (JustEvaluated /\ LastRec.action = "rebalance") =>
    LET gainTimes100 ==
          LastPosition.currentValue * (LastRec.newPool.apy - LastPool.apy)
    IN  /\ LastRec.expectedGain = gainTimes100
        /\ LastRec.urgency =
             IF gainTimes100 > 100 * strategy.rebalanceThreshold
             THEN "high" ELSE "medium"

\* A rebalance whose gain equals the threshold exactly: urgency medium.
C4_Witness ==
  /\ JustEvaluated
  /\ LastRec.action = "rebalance"
  /\ LastRec.expectedGain = 100 * strategy.rebalanceThreshold
  /\ LastRec.urgency = "medium"

\* A rebalance whose gain is above the threshold: urgency high.
C4_WitnessHigh ==
  /\ JustEvaluated
  /\ LastRec.action = "rebalance"
  /\ LastRec.expectedGain > 100 * strategy.rebalanceThreshold
  /\ LastRec.urgency = "high"

\* ---------------------------------------------------------------------- C5

\* C5: when rules 1 and 2 do not fire, the rule-3 recommendation (adjust,
\* medium, with a candidate pool) is issued exactly when the current pool's
\* risk score exceeds the tolerance ceiling and some pool of the list has the
\* position's token pair, a risk score below 0.8 x the current one and an APY
\* of at least 0.7 x the current APY (exactly 0.7 x qualifies).
C5_RiskAdjustExactlyWhen ==
  (JustEvaluated /\ ~Rule1 /\ LastRec.action # "rebalance") =>
    ( (LastRec.action = "adjust" /\ LastRec.urgency = "medium"
         /\ HasCandidate(LastRec))
      <=> /\ LastPool.riskScore > ToleranceCeiling(strategy.riskTolerance)
          /\ \E i \in 1..Len(availablePools) :
               /\ SamePair(availablePools[i], LastPosition)
               /\ 10 * availablePools[i].riskScore < 8 * LastPool.riskScore
               /\ 10 * availablePools[i].apy >= 7 * LastPool.apy )

\* ---------------------------------------------------------------------- C6

\* C6: when rules 1 to 3 do not fire and the estimated impermanent loss is
\* above maxImpermanentLoss, the recommendation is adjust with urgency medium
\* and riskReduction = IL - maxImpermanentLoss.
C6_LossAdjust ==
  (JustEvaluated /\ ~Rule1 /\ ~Rule2 /\ ~Rule3
     /\ LastIL > 10 * strategy.maxImpermanentLoss) =>
    /\ LastRec.action = "adjust"
    /\ LastRec.urgency = "medium"
    /\ LastRec.riskReduction = LastIL - 10 * strategy.maxImpermanentLoss

\* The loss-based adjust, issued for a pool whose risk is above the ceiling
\* but has no safer candidate.
C6_Witness ==
  /\ JustEvaluated
  /\ ~Rule1 /\ ~Rule2 /\ ~Rule3
  /\ LastIL > 10 * strategy.maxImpermanentLoss
  /\ LastPool.riskScore > ToleranceCeiling(strategy.riskTolerance)
  /\ LastRec.action = "adjust"
  /\ LastRec.riskReduction > 0

\* ---------------------------------------------------------------------- C7

\* C7: a position whose pool APY is at least 0.7 x targetAPY, whose estimated
\* IL is at most maxImpermanentLoss and whose pool risk score is within the
\* tolerance ceiling gets hold with urgency low and no candidate pool,
\* expected gain, risk reduction or cost; and hold is issued only when none
\* of rules 1 to 4 matches.
C7_Hold ==
  JustEvaluated =>
    /\ ( ( /\ 10 * LastPool.apy >= 7 * strategy.targetAPY
           /\ LastIL <= 10 * strategy.maxImpermanentLoss
           /\ LastPool.riskScore <= ToleranceCeiling(strategy.riskTolerance) )
         => /\ LastRec.action = "hold"
            /\ LastRec.urgency = "low"
            /\ DOMAIN LastRec \cap {"newPool", "expectedGain",
                                    "riskReduction", "estimatedCost"} = {} )
    /\ ( LastRec.action = "hold"
         => ~Rule1 /\ ~Rule2 /\ ~Rule3 /\ ~Rule4 )

\* A hold at the boundaries: APY exactly 0.7 x targetAPY, IL exactly
\* maxImpermanentLoss, with a higher-yield pool of the same pair in the list.
C7_Witness ==
  /\ JustEvaluated
  /\ 10 * LastPool.apy = 7 * strategy.targetAPY
  /\ LastIL = 10 * strategy.maxImpermanentLoss
  /\ LastPool.riskScore <= ToleranceCeiling(strategy.riskTolerance)
  /\ \E i \in 1..Len(availablePools) :
       /\ SamePair(availablePools[i], LastPosition)
       /\ availablePools[i].apy > LastPool.apy
  /\ LastRec.action = "hold"

\* ---------------------------------------------------------------------- C8

\* C8: the candidate pool of a rebalance or adjust recommendation has the
\* position's unordered token pair: its label is token0/token1 or
\* token1/token0 of the position.
C8_CandidateSamePair ==
  (JustEvaluated /\ HasCandidate(LastRec)) =>
    SamePair(LastRec.newPool, LastPosition)

\* ---------------------------------------------------------------------- C9

HasMatchingPool(position) ==
  \E i \in 1..Len(availablePools) : SamePair(availablePools[i], position)

RECURSIVE SumExpectedGain(_)
SumExpectedGain(recs) ==
  IF recs = <<>> THEN 0
  ELSE (IF "expectedGain" \in DOMAIN Head(recs) THEN Head(recs).expectedGain ELSE 0)
       + SumExpectedGain(Tail(recs))

\* C9: a position with no pool whose pair is token0/token1 or token1/token0
\* gets no recommendation and the call still returns normally; in the result,
\* positionsAtRisk is the number of returned recommendations with urgency
\* high, underperformingPositions the number with action rebalance or exit,
\* and totalPotentialGain the sum of their expectedGain.
C9_UnmatchedExcluded ==
  /\ \A k \in 1..Len(recommendations) :
       HasMatchingPool(positions[recommendations[k].positionId])
  /\ pc = "done" =>
       /\ Len(result) = 1
       /\ LET recs == result[1].recommendations
          IN  /\ \A k \in 1..Len(recs) : HasMatchingPool(positions[recs[k].positionId])
              /\ result[1].positionsAtRisk =
                   Cardinality({ k \in 1..Len(recs) : recs[k].urgency = "high" })
              /\ result[1].underperformingPositions =
                   Cardinality({ k \in 1..Len(recs) :
                                   recs[k].action \in {"rebalance", "exit"} })
              /\ result[1].totalPotentialGain = SumExpectedGain(recs)

\* A returned analysis of two positions, one without a matching pool and one
\* with a high-urgency rebalance: only the latter is counted.
C9_Witness ==
  /\ pc = "done"
  /\ Len(positions) = 2
  /\ ~HasMatchingPool(positions[1])
  /\ HasMatchingPool(positions[2])
  /\ Len(result[1].recommendations) = 1
  /\ result[1].positionsAtRisk = 1
  /\ result[1].underperformingPositions = 1
  /\ result[1].totalPotentialGain > 0

\* --------------------------------------------------------------------- C10

\* C10: the recommendations keep the input position order and hold at most
\* one recommendation per position: their positions' places in the input list
\* are strictly increasing, during the loop and in the returned result.
C10_InputOrderPreserved ==
  /\ \A j, k \in 1..Len(recommendations) :
       j < k => recommendations[j].positionId < recommendations[k].positionId
  /\ pc = "done" =>
       LET recs == result[1].recommendations
       IN  \A j, k \in 1..Len(recs) :
             j < k => recs[j].positionId < recs[k].positionId

\* A returned analysis with a recommendation for each of two positions.
C10_Witness ==
  /\ pc = "done"
  /\ Len(result[1].recommendations) = 2
  /\ result[1].recommendations[1].positionId = 1
  /\ result[1].recommendations[2].positionId = 2

\* --------------------------------------------------------------------- C11

\* The positions of a fetched list that have a current pool in a pool list.
MatchedIds(fetched, pools) ==
  { fetched[i].positionId : i \in { j \in 1..Len(fetched) :
                                      findCurrentPool(pools, fetched[j]) # 0 } }

\* C11: two analyzePositions calls for different wallets overlapping on one
\* engine share no mutable state: the result of each call counts, as
\* totalPositions, the positions fetched for its own wallet, and holds a
\* recommendation for exactly those of them that have a current pool in the
\* pool list fetched by that same call, with a candidate pool from that list.
C11_CallsShareNoState ==
  \A c \in CallIds :
    calls[c].pc = "done" =>
      LET r == calls[c].result[1]
          own == calls[c].fetchedPositions
          ownPools == calls[c].fetchedPools
          recs == r.recommendations
      IN  /\ r.totalPositions = Len(own)
          /\ { recs[k].positionId : k \in 1..Len(recs) } = MatchedIds(own, ownPools)
          /\ \A k \in 1..Len(recs) :
               HasCandidate(recs[k]) =>
                 \E i \in 1..Len(ownPools) : ownPools[i] = recs[k].newPool

\* --------------------------------------------------------------------- C12

\* lo <= x <= hi as a statement about numbers: NaN is in no range.
InRange(x, lo, hi) == x # NaN /\ lo <= x /\ x <= hi

\* C12: validateStrategy returns exactly one message for each violated rule
\* among 0 <= targetAPY <= 100, 0 <= maxImpermanentLoss <= 50 and
\* 5 <= rebalanceThreshold <= 50, in that order and without short-circuiting,
\* so the empty list exactly when all three rules hold.
C12_OneMessagePerViolatedRule ==
  validated # <<>> =>
    LET s == validated[1].strategy
    IN  validated[1].errors =
          (IF InRange(s.targetAPY, 0, 100) THEN <<>>
           ELSE <<"Target APY must be between 0% and 100%">>)
          \o (IF InRange(s.maxImpermanentLoss, 0, 50) THEN <<>>
              ELSE <<"Max impermanent loss must be between 0% and 50%">>)
          \o (IF InRange(s.rebalanceThreshold, 5, 50) THEN <<>>
              ELSE <<"Rebalance threshold must be between 5% and 50%">>)

\* --------------------------------------------------------------------- C13

BuiltInIds == { DEFAULT_STRATEGIES[i].id : i \in 1..Len(DEFAULT_STRATEGIES) }

\* C13: strategy ids are unique: the settings strategy list never holds two
\* entries with the same id, and no created strategy has the id of a built-in
\* one, however little time passes between two createCustomStrategy calls.
C13_StrategyIdsUnique ==
  /\ \A i, j \in 1..Len(strategies) :
       strategies[i].id = strategies[j].id => i = j
  /\ \A i \in 1..Len(strategies) :
       i > Len(DEFAULT_STRATEGIES) => strategies[i].id \notin BuiltInIds

\* --------------------------------------------------------------------- C14

\* C14: after any sequence of createNewStrategy, toggleStrategy and
\* deleteStrategy on the built-in list, at most one entry of the strategy list
\* is enabled.
C14_AtMostOneEnabled ==
  \A i, j \in 1..Len(strategies) :
    (strategies[i].enabled /\ strategies[j].enabled) => i = j

\* --------------------------------------------------------------------- C15

\* The weights of the factors of a position-level assessment, in hundredths.
FactorWeights(assessment) ==
  sum([i \in 1..Len(assessment.factors) |-> assessment.factors[i].weight])

\* C15: the weights of the factors summed into an overall score add up to 1.0:
\* the weight fields of the factors assessPosition returns, and the four
\* configured weights assessPool uses.
C15_WeightsSumToOne ==
  /\ weights.smartContract + weights.liquidity
       + weights.impermanentLoss + weights.protocol = 100
  /\ \A k \in 1..Len(positionRisk) :
       positionRisk[k].call = "assessPosition" =>
         FactorWeights(positionRisk[k].result) = 100

\* --------------------------------------------------------------------- C16

\* C16: the overall score an assessment exposes is the weighted sum of the
\* scores of its factors rounded to the nearest integer, hence an integer;
\* here for the position-level assessPosition (overall is held in units of
\* 1/100000, so an integer is a multiple of 100000).
C16_OverallIsRoundedSum ==
  \A k \in 1..Len(positionRisk) :
    positionRisk[k].call = "assessPosition" =>
      LET r == positionRisk[k].result
      IN  /\ r.overall # NaN
          /\ r.overall = 100000 * round(calculateOverallRisk(r.factors), 100000)

\* --------------------------------------------------------------------- C17

\* A score in thousandths of a point lies in [0, 100].
InScoreRange(score) == score # NaN /\ 0 <= score /\ score <= 100000

\* C17: for every pool with finite non-negative apy, tvl and volume24h (tvl = 0
\* included) and every protocol name, assessPool returns an assessment whose
\* four factor scores and whose overall lie in [0, 100].
C17_PoolScoresInRange ==
  \A k \in 1..Len(assessed) :
    assessed[k].call = "assessPool" =>
      LET r == assessed[k].result
      IN  /\ r # TypeError
          /\ InScoreRange(r.factors.smartContract)
          /\ InScoreRange(r.factors.liquidity)
          /\ InScoreRange(r.factors.impermanentLoss)
          /\ InScoreRange(r.factors.protocol)
          /\ 0 <= r.overall /\ r.overall <= 100

\* --------------------------------------------------------------------- C18

\* C18: assessPool called twice with the same pool, with any assessPool or
\* assessPortfolio calls in between, returns the same overall, factor scores
\* and recommendations, and no call changes the protocol table or the weights.
C18_PoolScoringIdempotent ==
  /\ \A i, j \in 1..Len(assessed) :
       (/\ assessed[i].call = "assessPool"
        /\ assessed[j].call = "assessPool"
        /\ assessed[i].pool = assessed[j].pool)
         => assessed[i].result = assessed[j].result
  /\ weights = protocolRiskWeights
  /\ protocolRiskDatabase = initialProtocolRiskDatabase

\* The same pool assessed before and after a portfolio assessment of two pools.
C18_Witness ==
  /\ Len(assessed) = 3
  /\ assessed[1].call = "assessPool"
  /\ assessed[2].call = "assessPortfolio"
  /\ Len(assessed[2].pools) = 2
  /\ assessed[3].call = "assessPool"
  /\ assessed[3].pool = assessed[1].pool
  /\ assessed[1].pool.protocol = "BaseSwap"
  /\ assessed[3].result = assessed[1].result
  /\ assessed[1].result # TypeError

\* --------------------------------------------------------------------- C19

\* C19: for every position and every clock reading, a deposit timestamp later
\* than the reading included, the impermanent loss the engine estimates is at
\* least 0 and at most 15 percent (in tenths of a percent: 0 to 150).
C19_EstimatedILInRange ==
  JustEvaluated => (0 <= LastIL /\ LastIL <= 150)

\* --------------------------------------------------------------------- C20

\* The value-weighted mean of the matched positions' overall scores, each
\* score weighted by the value of the position it was computed for, and the
\* discount calculatePortfolioRisk then applies.
MatchedWeightedRisk(lpPositions, all) ==
  LET matched == filterIdx({ i \in 1..Len(all) : all[i] # <<>> })
      value == sum([k \in 1..Len(matched) |-> lpPositions[matched[k]].currentValue])
      risk == sum([k \in 1..Len(matched) |->
                     all[matched[k]][1].overall * lpPositions[matched[k]].currentValue])
                \div value
  IN  IF Len(matched) = 0 THEN 0
      ELSE Max(0, (risk * (100 - calculateDiversificationBenefit(lpPositions))) \div 100)

\* C20: in the position-level assessPortfolio a position with no matching pool
\* is skipped, and the aggregate risk is the sum over the matched positions of
\* (the position's overall score x that position's currentValue) divided by
\* the sum of the matched positions' currentValue, wherever the unmatched
\* positions stand in the list.
C20_MatchedPositionsWeighted ==
  \A k \in 1..Len(positionRisk) :
    positionRisk[k].call = "assessPortfolio" =>
      positionRisk[k].result.totalRisk =
        MatchedWeightedRisk(positionRisk[k].positions, positionRisk[k].assessments)

\* --------------------------------------------------------------------- C21

\* The last position of the second portfolio brings a protocol or a token
\* that no position of the first portfolio has.
BringsNewProtocolOrToken(before, added) ==
  \/ \A i \in 1..Len(before) : before[i].protocol # added.protocol
  \/ \E t \in { added.token0, added.token1 } :
       \A i \in 1..Len(before) : t \notin { before[i].token0, before[i].token1 }

\* C21: adding to a portfolio a position of any positive value that introduces
\* a protocol or a token not yet present does not lower diversificationScore.
C21_DiversificationMonotone ==
  (Len(positionRisk) = 2 /\ positionRisk[2].call = "assessPortfolio") =>
    LET before == positionRisk[1].positions
        after == positionRisk[2].positions
    IN  BringsNewProtocolOrToken(before, after[Len(after)]) =>
          positionRisk[2].result.diversificationScore
            >= positionRisk[1].result.diversificationScore

\* --------------------------------------------------------------------- C22

\* The largest currentValue of a non-empty portfolio.
MaxPositionValue(lpPositions) ==
  CHOOSE v \in { lpPositions[i].currentValue : i \in 1..Len(lpPositions) } :
    \A i \in 1..Len(lpPositions) : lpPositions[i].currentValue <= v

\* C22: for a non-empty portfolio of positive total value concentrationRisk is
\* maxPositionValue / totalValue x 100 (here cut to the thousandth), lies in
\* (0, 100], and is exactly 100 for a portfolio of one position.
C22_ConcentrationIsLargestShare ==
  \A k \in 1..Len(positionRisk) :
    (positionRisk[k].call = "assessPortfolio" /\ Len(positionRisk[k].positions) >= 1) =>
      LET ps == positionRisk[k].positions
          c == positionRisk[k].result.concentrationRisk
          total == sum([i \in 1..Len(ps) |-> ps[i].currentValue])
      IN  /\ 0 < c /\ c <= 100000
          /\ c * total <= MaxPositionValue(ps) * 100000
          /\ MaxPositionValue(ps) * 100000 < (c + 1) * total
          /\ Len(ps) = 1 => c = 100000

\* One position alone, then a larger one beside it: 100, then 50 / 51 x 100.
C22_Witness ==
  /\ Len(positionRisk) = 2
  /\ Len(positionRisk[1].positions) = 1
  /\ positionRisk[1].positions[1].currentValue = 1
  /\ positionRisk[1].result.concentrationRisk = 100000
  /\ positionRisk[2].positions[2].currentValue = 50
  /\ positionRisk[2].result.concentrationRisk = 98039

\* --------------------------------------------------------------------- C23

\* C23: the position-level assessPortfolio called with no positions, or with
\* positions none of which matches a pool, returns an assessment whose every
\* numeric metric is 0 and which carries a 'no positions to assess'
\* recommendation.
C23_DegeneratePortfolioAllZero ==
  \A k \in 1..Len(positionRisk) :
    (/\ positionRisk[k].call = "assessPortfolio"
     /\ \A i \in 1..Len(positionRisk[k].assessments) :
          positionRisk[k].assessments[i] = <<>>) =>
      LET r == positionRisk[k].result
      IN  /\ \A metric \in DOMAIN r \ { "recommendations" } : r[metric] = 0
          /\ "recommendations" \in DOMAIN r
          /\ r.recommendations = <<"No positions to assess">>


\* ------------------------------------------------------------------- C24
\* C24: adapter failures are not swallowed: a run of analyzePositions in which
\* the request for the user's positions or for the pool list failed never
\* completes with a normal RebalancingAnalysis.
C24_FailedFetchNeverReturnsAnalysis ==
  failed # <<>> => result = <<>>


\* ------------------------------------------------------------------- C25
\* The pools of the list that pass the filter of the search that ran.
Qualifies(s, i) ==
  /\ sameTokens(s.pools[i], s.position)
  /\ IF s.search = "better"
     THEN /\ 10 * s.pools[i].apy > 11 * s.currentPool.apy
          /\ isRiskAcceptable(s.pools[i].riskScore, s.riskTolerance)
     ELSE /\ 10 * s.pools[i].riskScore < 8 * s.currentPool.riskScore
          /\ 10 * s.pools[i].apy > 7 * s.currentPool.apy

\* Ten times APY - riskScore x penaltyFactor, penaltyFactor 0.1 or 1.0.
SearchValue(s, i) ==
  10 * s.pools[i].apy
    - s.pools[i].riskScore * (IF s.search = "better" THEN 1 ELSE 10)

\* C25: the selected pool qualifies and no qualifying pool has a strictly
\* higher APY - riskScore x penaltyFactor; a qualifying pool of equal value
\* never precedes it in the pool list; nothing is selected exactly when no
\* pool qualifies.
C25_SelectedMaximizesValue ==
  \A k \in 1..Len(searched) :
    LET s == searched[k]
        Q == { i \in 1..Len(s.pools) : Qualifies(s, i) }
    IN  /\ s.selected = 0 <=> Q = {}
        /\ s.selected # 0 =>
             /\ s.selected \in Q
             /\ \A j \in Q : SearchValue(s, j) <= SearchValue(s, s.selected)
             /\ \A j \in Q : SearchValue(s, j) = SearchValue(s, s.selected)
                               => s.selected <= j

\* The better-pool search chose between two qualifying pools of equal value.
C25_Witness ==
  /\ searched # <<>>
  /\ LET s == searched[1]
         Q == { i \in 1..Len(s.pools) : Qualifies(s, i) }
     IN  /\ s.search = "better"
         /\ s.selected # 0
         /\ \E j \in Q : j > s.selected
                          /\ SearchValue(s, j) = SearchValue(s, s.selected)

\* The safer-pool search passed over an earlier qualifying pool of lower value.
C25_SaferPassedOver ==
  /\ searched # <<>>
  /\ LET s == searched[1]
         Q == { i \in 1..Len(s.pools) : Qualifies(s, i) }
     IN  /\ s.search = "safer"
         /\ s.selected # 0
         /\ \E j \in Q : j < s.selected
                          /\ SearchValue(s, j) < SearchValue(s, s.selected)


\* ------------------------------------------------------------------- C26
Manageable == "Risk levels appear manageable for this position"

\* The recommendation lists of the assessments made so far, pool-level
\* (assessPool of api.ts) and position-level (assessPosition of part_002).
RecommendationLists ==
  { assessed[k].result.recommendations :
      k \in { j \in 1..Len(assessed) :
                 /\ assessed[j].call = "assessPool"
                 /\ assessed[j].result # TypeError } }
  \cup { positionRisk[k].result.recommendations :
           k \in { j \in 1..Len(positionRisk) :
                      positionRisk[j].call = "assessPosition" } }

\* C26: the recommendations of an assessment are never empty; the 'risk
\* levels manageable' message is the whole list whenever no trigger fired, and
\* never stands beside another message.
C26_FallbackMessage ==
  \A messages \in RecommendationLists :
    /\ messages # <<>>
    /\ (\E i \in 1..Len(messages) : messages[i] = Manageable)
         => messages = <<Manageable>>


\* ------------------------------------------------------------------- C27
\* C27: every rebalance or adjust recommendation of an analysis carries a
\* newPool, and executeRebalancing returns true for every recommendation the
\* engine's own analysis produced.
C27_EngineRecommendationsExecute ==
  /\ \A k \in 1..Len(recommendations) :
       recommendations[k].action \in {"rebalance", "adjust"}
         => HasCandidate(recommendations[k])
  /\ \A k \in 1..Len(executed) : executed[k].returned = TRUE


\* ------------------------------------------------------------------- C28
\* The hours between the deposit timestamp of the position evaluated last and
\* the clock reading of its evaluation.
HoursSinceFetch == now - LastPosition.depositTimestamp

\* C28: every fetched position is stamped with the time of the fetch; a
\* position evaluated less than 24 hours after the fetch has an estimated
\* impermanent loss of 0 and, under a strategy with maxImpermanentLoss >= 0,
\* gets neither exit nor the rule-4 adjust: its recommendation is rebalance,
\* an adjust with a candidate pool, or hold.
C28_FreshPositionsHaveNoLoss ==
  /\ pc = "pools" =>
       \A k \in 1..Len(positions) : positions[k].depositTimestamp = now
  /\ (JustEvaluated /\ HoursSinceFetch \in 0..23
        /\ strategy.maxImpermanentLoss >= 0) =>
       /\ LastIL = 0
       /\ LastRec.action \in {"rebalance", "adjust", "hold"}
       /\ LastRec.action = "adjust" => HasCandidate(LastRec)

\* A position evaluated 23 hours after its fetch under the strategy that
\* tolerates no impermanent loss is held.
C28_Witness ==
  /\ JustEvaluated
  /\ HoursSinceFetch = 23
  /\ strategy.maxImpermanentLoss = 0
  /\ LastRec.action = "hold"


\* ------------------------------------------------------------------- C29
\* C29: the position-level assessPosition never reports severity critical:
\* the overall score is never 80 or more, the severity is low, medium or high,
\* and the critical banner is not among the recommendations.
C29_NeverCritical ==
  \A k \in 1..Len(positionRisk) :
    positionRisk[k].call = "assessPosition" =>
      LET r == positionRisk[k].result
      IN  /\ r.overall = NaN \/ r.overall < 8000000
          /\ r.severity \in {"low", "medium", "high"}
          /\ \A i \in 1..Len(r.recommendations) :
               r.recommendations[i]
                 # "Consider immediate position review and potential exit"

\* The riskiest position against the riskiest pool: severity high.
C29_Witness ==
  /\ positionRisk # <<>>
  /\ positionRisk[1].call = "assessPosition"
  /\ positionRisk[1].result.severity = "high"
  /\ positionRisk[1].result.overall >= 6400000


\* ------------------------------------------------------------------- C30
\* The setCachedData calls for the key of the last get that preceded it.
SetsBeforeGet ==
  { i \in 1..got[1].sets : cacheLog[i].key = got[1].key }

LastSetBeforeGet ==
  cacheLog[CHOOSE i \in SetsBeforeGet : \A j \in SetsBeforeGet : j <= i]

\* C30: getCachedData(key) returns the data of the most recent
\* setCachedData(key, data) when less than 30000 ms have passed since that
\* call, and null otherwise: for a key never set, and from 30000 ms on,
\* whatever other keys hold and whatever gets were made in between.
C30_CacheFreshness ==
  got # <<>> =>
    IF SetsBeforeGet # {} /\ got[1].at - LastSetBeforeGet.at < 30000
    THEN got[1].returned = LastSetBeforeGet.data
    ELSE got[1].returned = <<>>

\* A get 29999 ms after the second set of its key returned the second value,
\* not the first.
C30_Witness ==
  /\ got # <<>>
  /\ Cardinality(SetsBeforeGet) >= 2
  /\ got[1].at - LastSetBeforeGet.at = 29999
  /\ got[1].returned = LastSetBeforeGet.data
  /\ \E i \in SetsBeforeGet : cacheLog[i].data # got[1].returned

\* A get exactly 30000 ms after the set of its key returned null while the
\* other key, set later, was still fresh.
C30_ExpiredAtDuration ==
  /\ got # <<>>
  /\ SetsBeforeGet # {}
  /\ got[1].at - LastSetBeforeGet.at = 30000
  /\ got[1].returned = <<>>
  /\ \E i \in 1..got[1].sets : cacheLog[i].key # got[1].key
                                 /\ got[1].at - cacheLog[i].at < 30000

====
